---- MODULE Spec2Model ----
(***************************************************************************)
(* Urban-Insight: the community statistics engine                          *)
(* (src/src/utils/communityStats.js) and the GeoJSON loader                *)
(* (src/src/utils/loadGeoJSON.js).                                         *)
(*                                                                         *)
(* Scheduling: JavaScript runs one task at a time.  A fetch() and a        *)
(* setTimeout(0) end the current task; everything an async function does   *)
(* between two of them (cache hits included) runs in the microtasks of one *)
(* task.  An action of this model is one task.                             *)
(***************************************************************************)
EXTENDS Integers, Sequences, FiniteSets, TLC

(***************************************************************************)
(* Bounds of the model.                                                    *)
(***************************************************************************)
MaxCalls == 2
MaxSeqCalls == 3
MaxFailures == 1
MaxDirect == 1

(***************************************************************************)
(* Values.  null / undefined is Null; a loaded collection is an object     *)
(* [src, n]: the n-th object that response.json() built for source src.    *)
(***************************************************************************)
Null == [src |-> "null", n |-> 0]
NullGeom == [type |-> "null"]
\* properties.id of a feature that has none (undefined)
NoId == 0

Keys ==
  <<"communities", "lrtStops", "lrtLines", "parks", "trafficIncidents",
    "trafficSignals", "floodZones", "majorRoads">>
KeySet == {Keys[i] : i \in 1..Len(Keys)}
CandidateKeys == {"trafficIncidents", "parks", "trafficSignals", "lrtStops", "floodZones"}

Layers ==
  {"lrt", "lrt_lines", "lrt_stops", "parks", "traffic", "traffic_incidents",
   "traffic_signals", "flood_01_chance", "flood", "major_roads", "accessibility", "null"}

\* layerFileMap, for the layers the map component loads from one file.
ViewLayers == {"parks", "major_roads", "flood"}
LayerKey(layer) ==
  CASE layer = "parks" -> "parks"
    [] layer = "major_roads" -> "majorRoads"
    [] layer = "flood" -> "floodZones"
    [] OTHER -> "none"

(***************************************************************************)
(* Geometry.  Coordinates are integer pairs; a geometry is a record with   *)
(* a type and coordinates, as in GeoJSON.                                  *)
(***************************************************************************)
Square(x0, y0, x1, y1) ==
  << <<x0, y0>>, <<x0, y1>>, <<x1, y1>>, <<x1, y0>>, <<x0, y0>> >>
PointGeom(p) == [type |-> "Point", coordinates |-> p]
LineGeom(l) == [type |-> "LineString", coordinates |-> l]
PolygonGeom(rings) == [type |-> "Polygon", coordinates |-> rings]
MultiPolygonGeom(polys) == [type |-> "MultiPolygon", coordinates |-> polys]

HasField(r, f) == f \in DOMAIN r
IsGeoJSON(g) ==
  HasField(g, "type") /\ g.type \in {"Point", "LineString", "MultiLineString", "Polygon", "MultiPolygon"}

\* The edge test with the division cleared as if yj - yi were positive.
EdgeCrossesUnsigned(p, a, b) ==
  LET x == p[1]  y == p[2]
      xi == a[1] yi == a[2]
      xj == b[1] yj == b[2]
  IN /\ (yi > y) # (yj > y)
     /\ (x - xi) * (yj - yi) < (xj - xi) * (y - yi)

\* One edge (ring[i], ring[j]) of the ray-casting loop: the test
\* ((yi > y) !== (yj > y)) && (x < (xj - xi) * (y - yi) / (yj - yi) + xi),
\* with the division cleared by the sign of yj - yi.
EdgeCrosses(p, a, b) ==
  LET x == p[1]  y == p[2]
      xi == a[1] yi == a[2]
      xj == b[1] yj == b[2]
      d == yj - yi
  IN /\ (yi > y) # (yj > y)
     /\ IF d > 0 THEN (x - xi) * d < (xj - xi) * (y - yi)
                 ELSE (x - xi) * d > (xj - xi) * (y - yi)

\* A loop that leaves out the first edge: for (i = 2, j = 1; ...).
CrossingsFromSecondEdge(p, ring) ==
  Cardinality({i \in 3..Len(ring) : EdgeCrosses(p, ring[i], ring[i - 1])})

\* The number of edges of the ring that the ray from p crosses
\* (for (i = 0, j = ring.length - 1; i < ring.length; j = i++)).
Crossings(p, ring) ==
  Cardinality({i \in 1..Len(ring) :
                 EdgeCrosses(p, ring[i], ring[IF i = 1 THEN Len(ring) ELSE i - 1])})

RingContains(p, ring) == Crossings(p, ring) % 2 = 1

\* ol/geom/Polygon intersectsCoordinate: inside the outer ring and in no hole.
IntersectsCoordinate(rings, p) ==
  /\ Len(rings) >= 1
  /\ RingContains(p, rings[1])
  /\ \A h \in 2..Len(rings) : ~RingContains(p, rings[h])

\* checkRing of the fallback: flips `inside` once per crossed edge.
CheckRing(inside, p, ring) ==
  IF Len(ring) < 3 THEN inside
  ELSE IF Crossings(p, ring) % 2 = 1 THEN ~inside ELSE inside

RECURSIVE FallbackMulti(_, _, _, _)
FallbackMulti(inside, p, polys, k) ==
  IF k > Len(polys) THEN inside
  ELSE FallbackMulti(IF Len(polys[k]) >= 1 THEN CheckRing(inside, p, polys[k][1]) ELSE inside,
                     p, polys, k + 1)

\* The catch branch of isPointInCommunity (ray casting over the outer rings).
RayCastFallback(p, g) ==
  IF ~HasField(g, "coordinates") THEN FALSE
  ELSE IF HasField(g, "type") /\ g.type = "Polygon" /\ Len(g.coordinates) >= 1
    THEN CheckRing(FALSE, p, g.coordinates[1])
  ELSE IF HasField(g, "type") /\ g.type = "MultiPolygon" /\ Len(g.coordinates) >= 1
          /\ Len(g.coordinates[1]) >= 1
    THEN FallbackMulti(FALSE, p, g.coordinates, 1)
  ELSE FALSE

\* geoJsonFormat.readGeometry throws on an object that is no GeoJSON geometry
\* (no type, an unknown type) or whose coordinates it cannot read.
ReadGeometryThrows(g) ==
  ~IsGeoJSON(g) \/ HasField(g, "broken") \/ ~HasField(g, "coordinates")

\* isPointInCommunity(point, communityGeometry): the library path, and the
\* ray-casting fallback when the library throws.
IsPointInCommunity(point, g) ==
  IF point = <<>> \/ g = NullGeom THEN FALSE
  ELSE IF ReadGeometryThrows(g) THEN RayCastFallback(point, g)
  ELSE IF g.type = "Polygon" THEN IntersectsCoordinate(g.coordinates, point)
  ELSE IF g.type = "MultiPolygon"
    THEN \E k \in 1..Len(g.coordinates) : IntersectsCoordinate(g.coordinates[k], point)
  ELSE FALSE

(***************************************************************************)
(* Strings are sequences of one-character strings.                         *)
(***************************************************************************)
UpperChars == <<"A", "H", "K", "N", "O", "P", "S", "Z">>
LowerChars == <<"a", "h", "k", "n", "o", "p", "s", "z">>

ToLowerChar(c) ==
  IF \E i \in 1..Len(UpperChars) : UpperChars[i] = c
    THEN LowerChars[CHOOSE i \in 1..Len(UpperChars) : UpperChars[i] = c]
    ELSE c
ToLowerCase(s) == [i \in 1..Len(s) |-> ToLowerChar(s[i])]

\* String.prototype.includes
Includes(s, t) ==
  \E i \in 0..(Len(s) - Len(t)) : \A k \in 1..Len(t) : s[i + k] = t[k]

(***************************************************************************)
(* The data behind the source files: what a successful fetch of each       *)
(* source parses to.  The data is static for the session.                  *)
(***************************************************************************)
Community(id, name, code, crime, geom) ==
  [properties |-> [id |-> id, name |-> name, comm_code |-> code,
                   sector |-> <<"N">>, crime_by_community_total_crime |-> crime],
   geometry |-> geom]
Plain(geom) == [properties |-> [flow_rate |-> [absent |-> TRUE, isNull |-> FALSE, v |-> 0]], geometry |-> geom]
Zone(flow, geom) == [properties |-> [flow_rate |-> flow], geometry |-> geom]
FlowRate(v) == [absent |-> FALSE, isNull |-> FALSE, v |-> v]
FlowNull == [absent |-> FALSE, isNull |-> TRUE, v |-> 0]
FlowAbsent == [absent |-> TRUE, isNull |-> FALSE, v |-> 0]

CommunityA == Community(1, <<"P", "a", "n">>, <<"P", "H">>, 7, PolygonGeom(<<Square(0, 0, 4, 4)>>))
CommunityB == Community(2, <<"S", "p", "a", "n">>, <<"S", "K">>, 3, PolygonGeom(<<Square(6, 0, 10, 4)>>))

VARIABLES
  world,          \* source -> the features its file holds
  chunkSizes,     \* the chunk sizes of the four dataset loops
  mapLayer,       \* the map component: the layer load in flight, and the
                  \* collection objects whose features it has written to
  olMap,          \* the map component: the active layer, the vector layers
                  \* attached to the map and the layer loads in flight
  searchBar       \* the SearchBar: its term and layer, its debounce timer, the
                  \* searches queued and in flight, and the results it shows

\* The data of the deployment.  flow_rate is kept in tenths: 125 is 12.5.
DefaultWorld ==
  [key \in KeySet |->
  CASE key = "communities" -> <<CommunityA, CommunityB>>
    [] key = "trafficIncidents" ->
         <<Plain(PointGeom(<<1, 1>>)), Plain(PointGeom(<<7, 1>>)), Plain(NullGeom)>>
    [] key = "parks" ->
         <<Plain(PointGeom(<<1, 3>>)), Plain(PolygonGeom(<<Square(7, 1, 12, 3)>>))>>
    [] key = "trafficSignals" ->
         <<Plain(PointGeom(<<3, 1>>)), Plain(PointGeom(<<3, 3>>))>>
    [] key = "lrtStops" -> <<Plain(PointGeom(<<7, 3>>))>>
    [] key = "lrtLines" -> <<Plain(LineGeom(<< <<1, 1>>, <<5, 1>>, <<9, 1>> >>))>>
    [] key = "floodZones" ->
         <<Zone(FlowRate(125), PolygonGeom(<<Square(-1, -1, 3, 3)>>)),
           Zone(FlowRate(0), PolygonGeom(<<Square(5, -1, 11, 5)>>)),
           Zone(FlowNull, PolygonGeom(<<Square(5, -1, 11, 5)>>)),
           Zone(FlowAbsent, PolygonGeom(<<Square(5, -2, 12, 5)>>)),
           Zone(FlowRate(-5), PolygonGeom(<<Square(5, -1, 11, 6)>>))>>
    [] key = "majorRoads" -> <<Plain(LineGeom(<< <<20, 20>>, <<9, 3>> >>))>>]

\* What a successful fetch of the source parses to.
WorldData(key) == world[key]

\* feature.properties._layerType = t
WithLayerType(f, t) ==
  [f EXCEPT !.properties =
     [x \in DOMAIN f.properties \cup {"layerType"} |->
        IF x = "layerType" THEN t ELSE f.properties[x]]]

\* The _layerType the traffic layer writes to the features of a source.
LayerTypeOf(key) == IF key = "trafficIncidents" THEN "incident" ELSE "signal"

\* The features of a collection object (null has none): as parsed, and with
\* the property the map component has written to them since.
Features(obj) ==
  IF obj = Null THEN <<>>
  ELSE IF obj \in mapLayer.tagged
    THEN [i \in DOMAIN WorldData(obj.src) |->
            WithLayerType(WorldData(obj.src)[i], LayerTypeOf(obj.src))]
  ELSE WorldData(obj.src)

(***************************************************************************)
(* calculateCommunityStats: the pure parts.                                *)
(***************************************************************************)
ChunkSizeIncidents == 100
ChunkSizeParks == 50
ChunkSizeSignals == 200
ChunkSizeStops == 200
ProgramChunkSizes == <<ChunkSizeIncidents, ChunkSizeParks, ChunkSizeSignals, ChunkSizeStops>>

Min(a, b) == IF a < b THEN a ELSE b
Max(a, b) == IF a > b THEN a ELSE b

\* The record a boundary starts with (communityStats = features.map(...)).
InitRecord(c) ==
  [id |-> c.properties.id, name |-> c.properties.name, code |-> c.properties.comm_code,
   sector |-> c.properties.sector, crime |-> c.properties.crime_by_community_total_crime,
   trafficIncidents |-> 0, parks |-> 0, trafficSignals |-> 0, lrtStops |-> 0,
   floodRisk |-> FALSE, geometry |-> c.geometry]

InitStats(comms) == [k \in 1..Len(comms) |-> InitRecord(comms[k])]

\* data.communities.features.find(c => c.properties.id === community.id):
\* the index of the first boundary with that id, 0 when there is none.
FindById(comms, id) ==
  IF \E k \in 1..Len(comms) : comms[k].properties.id = id
    THEN CHOOSE k \in 1..Len(comms) :
           /\ comms[k].properties.id = id
           /\ \A m \in 1..(k - 1) : comms[m].properties.id # id
    ELSE 0

\* Whether an entry of the features array is null: reading a property of it
\* (incident.geometry, floodZone.properties) throws a TypeError.
HasNullFeature(feats) == \E i \in DOMAIN feats : feats[i] = Null

\* feature.geometry?.coordinates (<<>> when there is none)
CoordsOf(f) == IF HasField(f.geometry, "coordinates") THEN f.geometry.coordinates ELSE <<>>

\* typeof lon === 'number' && typeof lat === 'number' for the coordinates of
\* a feature handed over as the point: those of a Point are a pair of
\* numbers, those of every other type are arrays.
IsNumberPair(f) == HasField(f.geometry, "type") /\ f.geometry.type = "Point"

\* Whether record r counts the point candidate f (incidents, signals, stops).
PointHit(f, r, comms) ==
  LET coords == CoordsOf(f)
      k == FindById(comms, r.id)
  IN /\ Len(coords) >= 2
     /\ k # 0
     /\ IsNumberPair(f)
     /\ IsPointInCommunity(coords, comms[k].geometry)

\* The points a park is tested with (lines 368-379).
ParkPoints(park) ==
  LET coords == CoordsOf(park)
  IN IF Len(coords) < 2 THEN <<>>
     ELSE IF park.geometry.type = "Point" THEN <<coords>>
     ELSE IF park.geometry.type = "Polygon" /\ Len(coords[1]) >= 1 THEN <<coords[1][1]>>
     ELSE <<>>

\* How many times record r counts the park (once per tested point inside).
ParkHits(park, r, comms) ==
  LET k == FindById(comms, r.id)
      pts == ParkPoints(park)
  IN IF k = 0 THEN 0
     ELSE Cardinality({i \in 1..Len(pts) : IsPointInCommunity(pts[i], comms[k].geometry)})

Hits(metric, f, r, comms) ==
  IF metric = "parks" THEN ParkHits(f, r, comms)
  ELSE IF PointHit(f, r, comms) THEN 1 ELSE 0

RECURSIVE SumHits(_, _, _, _, _, _)
SumHits(metric, feats, lo, hi, r, comms) ==
  IF lo > hi THEN 0
  ELSE Hits(metric, feats[lo], r, comms) + SumHits(metric, feats, lo + 1, hi, r, comms)

\* A loop that steps over one feature more than the chunk holds.
NextChunkStartSkipping(i, size) == i + size + 1

\* i += chunkSize
NextChunkStart(i, size) == i + size

\* One chunk: chunk = feats.slice(i, i + chunkSize); chunk.forEach(...).
\* i is the 0-based start of the chunk.
ProcessChunk(stats, metric, feats, i, chunkSize, comms) ==
  [k \in DOMAIN stats |->
     [stats[k] EXCEPT ![metric] =
        @ + SumHits(metric, feats, i + 1, Min(i + chunkSize, Len(feats)), stats[k], comms)]]

\* The first coordinate of a boundary, the test point of the flood check.
FirstCoordinate(g) ==
  IF ~HasField(g, "coordinates") \/ ~HasField(g, "type") THEN <<>>
  ELSE IF g.type = "Polygon" /\ Len(g.coordinates) >= 1 /\ Len(g.coordinates[1]) >= 1
    THEN g.coordinates[1][1]
  ELSE IF g.type = "MultiPolygon" /\ Len(g.coordinates) >= 1 /\ Len(g.coordinates[1]) >= 1
          /\ Len(g.coordinates[1][1]) >= 1
    THEN g.coordinates[1][1][1]
  ELSE <<>>

\* What the flood check hands to isPointInCommunity as the geometry:
\* the object { geometry: floodZone.geometry }.
FloodTestGeometry(zone) == [geometry |-> zone.geometry]

\* Lines 442-464: the flood check of the full aggregation.
FloodPass(stats, zones) ==
  [k \in DOMAIN stats |->
     [stats[k] EXCEPT !.floodRisk =
        @ \/ \E z \in 1..Len(zones) :
               /\ HasField(zones[z].geometry, "coordinates")
               /\ HasField(stats[k].geometry, "coordinates")
               /\ FirstCoordinate(stats[k].geometry) # <<>>
               /\ IsPointInCommunity(FirstCoordinate(stats[k].geometry),
                                     FloodTestGeometry(zones[z]))]]

(***************************************************************************)
(* calculateLayerSpecificStats: the pure parts.                            *)
(***************************************************************************)
LrtLayers == {"lrt", "lrt_lines", "lrt_stops"}
FloodLayers == {"flood_01_chance", "flood"}

\* requiredFiles (lines 517-530)
RequiredFiles(layer) ==
  IF layer \in LrtLayers THEN {"lrtStops", "lrtLines"}
  ELSE IF layer = "parks" THEN {"parks"}
  ELSE IF layer \in {"traffic", "traffic_incidents"} THEN {"trafficIncidents", "trafficSignals"}
  ELSE IF layer = "traffic_signals" THEN {"trafficSignals"}
  ELSE IF layer \in FloodLayers THEN {"floodZones"}
  ELSE IF layer = "major_roads" THEN {"majorRoads"}
  ELSE {}

\* .filter(...).length over the flags of the features
CountTrue(flags) == Cardinality({i \in DOMAIN flags : flags[i]})

\* A geometry with every coordinate multiplied by c: a point with rational
\* coordinates (sx / c, sy / c) is inside g exactly when (sx, sy) is inside
\* the scaled g.
ScalePoint(q, c) == <<q[1] * c, q[2] * c>>
ScaleRing(ring, c) == [i \in 1..Len(ring) |-> ScalePoint(ring[i], c)]
ScaleRings(rings, c) == [i \in 1..Len(rings) |-> ScaleRing(rings[i], c)]
ScaleGeom(g, c) ==
  IF ~HasField(g, "coordinates") \/ ~HasField(g, "type") THEN g
  ELSE IF g.type = "Polygon" THEN [g EXCEPT !.coordinates = ScaleRings(@, c)]
  ELSE IF g.type = "MultiPolygon"
    THEN [g EXCEPT !.coordinates = [k \in 1..Len(@) |-> ScaleRings(@[k], c)]]
  ELSE g

\* isPointInCommunity of the point (p[1] / c, p[2] / c).
IsRationalPointInCommunity(p, c, g) == IsPointInCommunity(p, ScaleGeom(g, c))

\* [coords[0], coords[Math.floor(coords.length / 2)], coords[coords.length - 1]]
ThreeSamples(coords) ==
  <<coords[1], coords[(Len(coords) \div 2) + 1], coords[Len(coords)]>>

\* Lines 547-565: an LRT line counts when its first, middle or last vertex is
\* inside.  For a MultiLineString the three samples are whole lines, which
\* isPointInCommunity rejects (typeof lon !== 'number').
LrtLineHit(line, geom) ==
  LET coords == CoordsOf(line)
  IN /\ Len(coords) >= 1
     /\ line.geometry.type = "LineString"
     /\ \E i \in 1..3 : IsPointInCommunity(ThreeSamples(coords)[i], geom)

RECURSIVE SumX(_, _)
SumX(ring, i) == IF i > Len(ring) THEN 0 ELSE ring[i][1] + SumX(ring, i + 1)
RECURSIVE SumY(_, _)
SumY(ring, i) == IF i > Len(ring) THEN 0 ELSE ring[i][2] + SumY(ring, i + 1)

\* Lines 573-621: whether a park counts for the boundary in the search.
ParkInCommunity(park, geom) ==
  LET coords == CoordsOf(park)
  IN IF coords = <<>> THEN FALSE
     ELSE IF park.geometry.type = "Point" THEN IsPointInCommunity(coords, geom)
     ELSE IF park.geometry.type = "Polygon" /\ Len(coords[1]) > 0
       THEN LET ring == coords[1]
            IN \/ \E i \in 1..3 : IsPointInCommunity(ThreeSamples(ring)[i], geom)
               \/ IsRationalPointInCommunity(<<SumX(ring, 1), SumY(ring, 1)>>, Len(ring), geom)
     ELSE IF park.geometry.type = "MultiPolygon" /\ Len(coords) >= 1 /\ Len(coords[1]) >= 1
             /\ Len(coords[1][1]) >= 1
       THEN IsPointInCommunity(coords[1][1][1], geom)
     ELSE FALSE

\* Every coordinate of a geometry.
RingPoints(ring) == {ring[i] : i \in 1..Len(ring)}
RingsPoints(rings) == UNION {RingPoints(rings[r]) : r \in 1..Len(rings)}
AllPoints(g) ==
  IF g.type = "Point" THEN {g.coordinates}
  ELSE IF g.type = "LineString" THEN RingPoints(g.coordinates)
  ELSE IF g.type \in {"Polygon", "MultiLineString"} THEN RingsPoints(g.coordinates)
  ELSE UNION {RingsPoints(g.coordinates[k]) : k \in 1..Len(g.coordinates)}

MinOf(S) == CHOOSE v \in S : \A w \in S : v <= w
MaxOf(S) == CHOOSE v \in S : \A w \in S : v >= w

\* ol getExtent(): [minX, minY, maxX, maxY]
Extent(g) ==
  LET P == AllPoints(g)
  IN <<MinOf({q[1] : q \in P}), MinOf({q[2] : q \in P}),
       MaxOf({q[1] : q \in P}), MaxOf({q[2] : q \in P})>>

\* Lines 691-696
ExtentsOverlap(a, b) == ~(a[3] < b[1] \/ a[1] > b[3] \/ a[4] < b[2] \/ a[2] > b[4])

\* Lines 704-715: the sampled vertices of the boundary ring (0-based
\* indices 0, step, 2 step, ..., and the last one).
RingSamples(ring) ==
  LET n == Len(ring)
      step == Max(1, n \div 5)
  IN {ring[i + 1] : i \in {j \in 0..(n - 1) : j % step = 0}}
       \cup (IF n > 1 THEN {ring[n]} ELSE {})

\* getCommunityCentroid by the library: the centre of the extent, as the
\* numerators of a point over 2.
ExtentCentreTimes2(g) == LET e == Extent(g) IN <<e[1] + e[3], e[2] + e[4]>>

\* A point of the boundary inside the zone, by the centroid: through the
\* extent when the boundary can be read, else through its first coordinate.
CentroidInZone(cg, zg) ==
  IF ~HasField(cg, "coordinates") THEN FALSE
  ELSE IF ~ReadGeometryThrows(cg) THEN IsRationalPointInCommunity(ExtentCentreTimes2(cg), 2, zg)
  ELSE FirstCoordinate(cg) # <<>> /\ IsPointInCommunity(FirstCoordinate(cg), zg)

\* The filter with >= for >: a zone with flow_rate 0 passes.
IsRiskZoneNonNegative(zone) ==
  LET fr == zone.properties.flow_rate
  IN ~fr.absent /\ ~fr.isNull /\ fr.v >= 0

\* The filter of lines 655-659: flow_rate present, not null, and > 0.
IsRiskZone(zone) ==
  LET fr == zone.properties.flow_rate
  IN ~fr.absent /\ ~fr.isNull /\ fr.v > 0

\* Lines 674-737 for one risk zone.
ZoneHitsCommunity(zone, cg) ==
  IF zone.geometry = NullGeom THEN FALSE
  ELSE IF ReadGeometryThrows(cg) THEN CentroidInZone(cg, zone.geometry)
  ELSE IF ReadGeometryThrows(zone.geometry) THEN CentroidInZone(cg, zone.geometry)
  ELSE IF ~ExtentsOverlap(Extent(cg), Extent(zone.geometry)) THEN FALSE
  ELSE \/ /\ cg.type = "Polygon" /\ Len(cg.coordinates) >= 1
          /\ \E q \in RingSamples(cg.coordinates[1]) : IsPointInCommunity(q, zone.geometry)
       \/ CentroidInZone(cg, zone.geometry)

\* Lines 650-766
FloodRiskOf(zones, cg) ==
  /\ HasField(cg, "coordinates")
  /\ \E z \in 1..Len(zones) : IsRiskZone(zones[z]) /\ ZoneHitsCommunity(zones[z], cg)

\* The points isLineInCommunity samples (lines 117-139).
LineSamples(coords) ==
  IF Len(coords) = 0 THEN <<>>
  ELSE IF Len(coords) > 2 THEN ThreeSamples(coords)
  ELSE <<coords[1], coords[Len(coords)]>>

\* isLineInCommunity(lineCoords, communityGeometry) on a LineString or a
\* MultiLineString.
IsLineInCommunity(line, geom) ==
  LET coords == CoordsOf(line)
      pts == IF line.geometry.type = "LineString" THEN LineSamples(coords)
             ELSE LET RECURSIVE All(_)
                      All(k) == IF k > Len(coords) THEN <<>>
                                ELSE LineSamples(coords[k]) \o All(k + 1)
                  IN All(1)
  IN IF coords = <<>> \/ geom = NullGeom THEN FALSE
     ELSE IF ReadGeometryThrows(geom)
       THEN LET first == IF line.geometry.type = "LineString" THEN coords[1] ELSE coords[1][1]
            IN IsPointInCommunity(first, geom)
     ELSE \E i \in 1..Len(pts) : IsPointInCommunity(pts[i], geom)

ZeroStats ==
  [lrtStops |-> 0, lrtLines |-> 0, parks |-> 0, trafficIncidents |-> 0,
   trafficSignals |-> 0, floodRisk |-> FALSE, majorRoads |-> 0]

Loaded(dc, key) == dc[key] # Null

\* The branch without its test of the active layer: taken whenever the
\* collection is in the cache.
ActiveWhenCached(layer, names, dc, key) == Loaded(dc, key)

\* The guard of a branch of calculateLayerSpecificStats:
\* (activeLayer === ...) && data.<key>.
Active(layer, names, dc, key) == layer \in names /\ Loaded(dc, key)

\* The candidate features that calculateLayerSpecificStats tests once
\* loadAllData has returned: each branch filters its whole collection
\* (data.<key>.features.filter), in the task that resumed it.
TestedByCallback(layer, dc) ==
  LET All(names, key) == IF Active(layer, names, dc, key) THEN Len(Features(dc[key])) ELSE 0
  IN All(LrtLayers, "lrtStops") + All(LrtLayers, "lrtLines") + All({"parks"}, "parks")
     + All({"traffic", "traffic_incidents"}, "trafficIncidents")
     + All({"traffic", "traffic_signals"}, "trafficSignals")
     + All(FloodLayers, "floodZones") + All({"major_roads"}, "majorRoads")

\* Lines 534-780: the statistics of one boundary for the active layer, read
\* from the cache dc as it is when loadAllData has returned.
LayerStats(community, layer, dc) ==
  LET geom == community.geometry
      PointIn(f) == CoordsOf(f) # <<>> /\ IsNumberPair(f) /\ IsPointInCommunity(CoordsOf(f), geom)
      LineIn(f) == LrtLineHit(f, geom)
      ParkIn(f) == ParkInCommunity(f, geom)
      RoadIn(f) == CoordsOf(f) # <<>> /\ IsLineInCommunity(f, geom)
      \* the filter of the branch throws: the catch of lines 781-783 ends
      \* the function with the counters as they are
      Throws(names, key) == Active(layer, names, dc, key) /\ HasNullFeature(Features(dc[key]))
      IncidentNames == {"traffic", "traffic_incidents"}
  IN [lrtStops |-> IF Active(layer, LrtLayers, dc, "lrtStops") /\ ~Throws(LrtLayers, "lrtStops")
                     THEN CountTrue([i \in DOMAIN Features(dc["lrtStops"]) |->
                                    PointIn(Features(dc["lrtStops"])[i])]) ELSE 0,
      lrtLines |-> IF /\ Active(layer, LrtLayers, dc, "lrtLines")
                      /\ ~Throws(LrtLayers, "lrtStops") /\ ~Throws(LrtLayers, "lrtLines")
                     THEN CountTrue([i \in DOMAIN Features(dc["lrtLines"]) |->
                                    LineIn(Features(dc["lrtLines"])[i])]) ELSE 0,
      parks |-> IF Active(layer, {"parks"}, dc, "parks") /\ ~Throws({"parks"}, "parks")
                  THEN CountTrue([i \in DOMAIN Features(dc["parks"]) |->
                                    ParkIn(Features(dc["parks"])[i])]) ELSE 0,
      trafficIncidents |-> IF /\ Active(layer, IncidentNames, dc, "trafficIncidents")
                              /\ ~Throws(IncidentNames, "trafficIncidents")
                             THEN CountTrue([i \in DOMAIN Features(dc["trafficIncidents"]) |->
                                    PointIn(Features(dc["trafficIncidents"])[i])]) ELSE 0,
      trafficSignals |-> IF /\ Active(layer, {"traffic", "traffic_signals"}, dc, "trafficSignals")
                            /\ ~Throws(IncidentNames, "trafficIncidents")
                            /\ ~Throws({"traffic", "traffic_signals"}, "trafficSignals")
                           THEN CountTrue([i \in DOMAIN Features(dc["trafficSignals"]) |->
                                    PointIn(Features(dc["trafficSignals"])[i])]) ELSE 0,
      floodRisk |-> /\ Active(layer, FloodLayers, dc, "floodZones")
                    /\ HasField(geom, "coordinates")
                    /\ ~HasNullFeature(Features(dc["floodZones"]))
                    /\ FloodRiskOf(Features(dc["floodZones"]), geom),
      majorRoads |-> IF /\ Active(layer, {"major_roads"}, dc, "majorRoads")
                        /\ ~Throws({"major_roads"}, "majorRoads")
                       THEN CountTrue([i \in DOMAIN Features(dc["majorRoads"]) |->
                                    RoadIn(Features(dc["majorRoads"])[i])]) ELSE 0]

(***************************************************************************)
(* The state: the two caches, and the calls in flight.                     *)
(***************************************************************************)
\* .slice(0, 10): the most results a search returns.
MaxResults == 10

VARIABLES
  geoJsonCache,   \* loadGeoJSON.js: url -> collection (Null: no entry)
  dataCache,      \* communityStats.js: cacheKey -> collection or null
  built,          \* per source, how many objects response.json() has built
  failures,       \* how many fetches have failed
  calls,          \* the calls of calculateCommunityStats / searchCommunities
  direct,         \* per source, the map component's loadGeoJSON calls in flight
  directIssued,   \* how many loadGeoJSON calls the map component has made
  raced,          \* per source: another fetch of it was in flight when its
                  \* first fetch succeeded
  failed,         \* the sources of which a fetch has failed
  ranking,        \* a call of calculateRankings: its argument and its result
  pointTest       \* a call of isPointInCommunity: its arguments and its result

vars ==
  <<world, chunkSizes, geoJsonCache, dataCache, built, failures, calls, direct, directIssued, raced,
    failed, mapLayer, olMap, searchBar, ranking, pointTest>>

Obj(key, n) == [src |-> key, n |-> n]

\* The loader state that one task reads and writes.
Mem == [dc |-> dataCache, gc |-> geoJsonCache, built |-> built, raced |-> raced]

\* The fetches of a source that are in flight.
InFlight(key) ==
  direct[key]
  + (IF key \in mapLayer.waiting THEN 1 ELSE 0)
  + Cardinality({r \in olMap.loads : LayerKey(r.layer) = key})
  + Cardinality({c \in DOMAIN calls : calls[c].pc = "fetchComm" /\ key = "communities"})
  + Cardinality({ck \in {<<c, k>> \in (DOMAIN calls) \X (1..MaxResults) : k <= Len(calls[c].tasks)} :
                   /\ calls[ck[1]].pc = "tasks"
                   /\ calls[ck[1]].tasks[ck[2]].wait # 0
                   /\ Keys[calls[ck[1]].tasks[ck[2]].wait] = key})

\* geoJsonCache.has(url)
GeoJsonCacheHas(gc, key) == gc[key] # Null

\* loadGeoJSON after its fetch: on success the parsed object is cached and
\* returned; on any failure null is returned (lines 17-31).
FetchResult(m, key, ok) == IF ok THEN Obj(key, m.built[key] + 1) ELSE Null

\* loadGeoJSON without the geoJsonCache.set(url, data) of its success path.
AfterFetchNoCache(m, key, ok) ==
  IF ok THEN [m EXCEPT !.built[key] = @ + 1,
                       !.raced[key] = IF m.built[key] = 0 THEN InFlight(key) > 1 ELSE @]
  ELSE m

AfterFetch(m, key, ok) ==
  IF ok THEN [m EXCEPT !.gc[key] = Obj(key, m.built[key] + 1), !.built[key] = @ + 1,
                       !.raced[key] = IF m.built[key] = 0 THEN InFlight(key) > 1 ELSE @]
  ELSE m

\* A store that, when the load has failed, also drops the candidate
\* collections loaded before it.
StoreLoadedDroppingOthers(m, key, v) ==
  IF v = Null
    THEN [m EXCEPT !.dc = [k \in KeySet |-> IF k = "communities" THEN m.dc[k] ELSE Null]]
    ELSE [m EXCEPT !.dc[key] = v]

\* The caller's store of what loadGeoJSON returned: dataCache[cacheKey] = data
\* (lines 33, 51, 66), null included.
StoreLoaded(m, key, v) == [m EXCEPT !.dc[key] = v]

\* What a request for the source returns without a fetch: the entry of
\* dataCache when it is set (lines 27, 45, 65), else the entry of geoJsonCache
\* (loadGeoJSON lines 13-15).
CachedAnswer(m, key) == IF m.dc[key] # Null THEN m.dc[key] ELSE m.gc[key]

\* Whether a request for the source goes to fetch().
NeedsFetch(m, key) == m.dc[key] = Null /\ ~GeoJsonCacheHas(m.gc, key)

\* loadAllData from its j-th file on (lines 70-91, each through loadDataFile
\* and loadGeoJSON): runs the cache hits and stops at the first file that
\* needs a fetch.  wait is the index of that file in Keys, 0 when none.
RECURSIVE RunLoad(_, _, _)
RunLoad(m, req, j) ==
  IF j > Len(Keys) THEN [m |-> m, wait |-> 0]
  ELSE LET key == Keys[j]
       IN IF key \notin req THEN RunLoad(m, req, j + 1)
          ELSE IF NeedsFetch(m, key) THEN [m |-> m, wait |-> j]
          ELSE RunLoad(StoreLoaded(m, key, CachedAnswer(m, key)), req, j + 1)

\* The communities load that opens loadCommunitiesOnly (lines 27-33) and
\* loadAllData (lines 65-67).
LoadCommunities(m) ==
  IF NeedsFetch(m, "communities") THEN [m |-> m, wait |-> 1]
  ELSE [m |-> StoreLoaded(m, "communities", CachedAnswer(m, "communities")), wait |-> 0]

IdleCall ==
  [kind |-> "idle", pc |-> "idle", layer |-> "null", term |-> <<>>, stage |-> 0,
   idx |-> 0, stats |-> <<>>, tasks |-> <<>>, result |-> <<>>, snap |-> {}]

\* The sources the statistics cache holds.
LoadedKeys(dc) == {k \in KeySet : dc[k] # Null}

(***************************************************************************)
(* calculateCommunityStats as a process.                                   *)
(***************************************************************************)
StageKeys == <<"trafficIncidents", "parks", "trafficSignals", "lrtStops">>
StageChunk == chunkSizes
NStages == Len(StageKeys)

\* The next dataset loop that runs at least one chunk: its collection is in
\* the cache and has features (NStages + 1: none is left).
RECURSIVE NextStage(_, _)
NextStage(dc, s) ==
  IF s > NStages THEN NStages + 1
  ELSE IF Loaded(dc, StageKeys[s]) /\ Len(Features(dc[StageKeys[s]])) > 0 THEN s
  ELSE NextStage(dc, s + 1)

\* Lines 440-471: the flood check and the return; a null flood zone throws
\* at floodZone.geometry, and the outer catch returns [].
CalcFinish(call, dc, stats) ==
  [call EXCEPT !.pc = "done", !.stats = <<>>,
               !.result = IF ~Loaded(dc, "floodZones") THEN stats
                          ELSE IF HasNullFeature(Features(dc["floodZones"])) THEN <<>>
                          ELSE FloodPass(stats, Features(dc["floodZones"]))]

\* Enters the loops from loop s on: stops at the first yield.
CalcEnter(call, dc, stats, s) ==
  LET n == NextStage(dc, s)
  IN IF n > NStages THEN CalcFinish(call, dc, stats)
     ELSE [call EXCEPT !.pc = "yield", !.stage = n, !.idx = 0, !.stats = stats]

\* A run whose counters are those of a run in flight instead of a fresh
\* array.
CalcAfterLoadSharing(call, dc) ==
  IF dc["communities"] = Null THEN [call EXCEPT !.pc = "done", !.result = <<>>]
  ELSE LET others == {c \in DOMAIN calls : calls[c].kind = "calc" /\ calls[c].pc = "yield"}
       IN CalcEnter(call, dc,
                    IF others = {} THEN InitStats(Features(dc["communities"]))
                    ELSE calls[CHOOSE c \in others : TRUE].stats, 1)

\* Lines 310-328: after loadAllData() has returned.
CalcAfterLoad(call, dc) ==
  IF dc["communities"] = Null THEN [call EXCEPT !.pc = "done", !.result = <<>>]
  ELSE CalcEnter(call, dc, InitStats(Features(dc["communities"])), 1)

\* chunk.length of the chunk a call at a yield processes when it resumes.
ChunkLength(call) ==
  Min(call.idx + StageChunk[call.stage], Len(WorldData(StageKeys[call.stage]))) - call.idx

\* The flood zones the flood check runs over (data.floodZones.features.forEach).
FloodTested(dc) == IF Loaded(dc, "floodZones") THEN Len(Features(dc["floodZones"])) ELSE 0

\* The candidate features a task of a full aggregation tests: before is the
\* call as the task starts, after as it ends (at its next yield, or returned).
TestedByCalcTask(before, after, dc) ==
  (IF before.pc = "yield" THEN ChunkLength(before) ELSE 0)
  + (IF after.pc = "done" /\ Len(after.result) > 0 THEN FloodTested(dc) ELSE 0)

\* Whether chunk.forEach meets a null entry: incident.geometry throws, and
\* the outer catch (lines 468-471) returns [].
ChunkThrows(feats, i, chunkSize) ==
  \E j \in (i + 1)..Min(i + chunkSize, Len(feats)) : feats[j] = Null

\* Whether the chunk reads data.communities.features (the find of the inner
\* loops): it has a feature that passes the coords test, and there is a record.
ChunkReadsCommunities(metric, feats, i, chunkSize, stats) ==
  /\ Len(stats) > 0
  /\ \E j \in (i + 1)..Min(i + chunkSize, Len(feats)) :
       IF feats[j] = Null THEN FALSE
       ELSE IF metric = "parks" THEN Len(ParkPoints(feats[j])) > 0
       ELSE Len(CoordsOf(feats[j])) >= 2

(***************************************************************************)
(* searchCommunities as a process.                                         *)
(***************************************************************************)
\* The filter of lines 806-810.
Matches(c, searchTerm) ==
  LET term == ToLowerCase(searchTerm)
  IN \/ Includes(ToLowerCase(c.properties.name), term)
     \/ Includes(ToLowerCase(c.properties.comm_code), term)

\* .filter(...).slice(0, 10): the indices of the matches, in collection order.
RECURSIVE FilterFrom(_, _, _)
FilterFrom(comms, searchTerm, k) ==
  IF k > Len(comms) THEN <<>>
  ELSE (IF Matches(comms[k], searchTerm) THEN <<k>> ELSE <<>>)
         \o FilterFrom(comms, searchTerm, k + 1)

Slice(seq, n) == SubSeq(seq, 1, Min(n, Len(seq)))

\* The filter without its .slice(0, 10).
FilteredUnbounded(comms, searchTerm) == FilterFrom(comms, searchTerm, 1)

Filtered(comms, searchTerm) == Slice(FilterFrom(comms, searchTerm, 1), MaxResults)

\* baseData and the layer statistics of one result (lines 816-845).
ResultRecord(c, st) ==
  [id |-> c.properties.id, name |-> c.properties.name, code |-> c.properties.comm_code,
   sector |-> c.properties.sector, crime |-> c.properties.crime_by_community_total_crime,
   geometry |-> c.geometry,
   lrtStops |-> st.lrtStops, lrtLines |-> st.lrtLines, parks |-> st.parks,
   trafficIncidents |-> st.trafficIncidents, trafficSignals |-> st.trafficSignals,
   floodRisk |-> st.floodRisk, majorRoads |-> st.majorRoads]

\* One callback of filtered.map: calculateLayerSpecificStats up to its first
\* fetch, or to its end.
TaskAfterLoad(comms, ci, layer, r) ==
  [comm |-> ci, wait |-> r.wait,
   stats |-> IF r.wait = 0 THEN LayerStats(comms[ci], layer, r.m.dc) ELSE ZeroStats]

\* The callbacks start one after the other, within one task.
RECURSIVE StartTasks(_, _, _, _, _)
StartTasks(m, comms, idxs, layer, k) ==
  IF k > Len(idxs) THEN [m |-> m, tasks |-> <<>>]
  ELSE LET r == IF layer = "null" THEN [m |-> m, wait |-> 0]
                ELSE RunLoad(m, RequiredFiles(layer), 2)
           rest == StartTasks(r.m, comms, idxs, layer, k + 1)
       IN [m |-> rest.m, tasks |-> <<TaskAfterLoad(comms, idxs[k], layer, r)>> \o rest.tasks]

\* Promise.all: resolves when every callback has, with the results in the
\* order of the callbacks.
Settle(call, comms) ==
  IF \A k \in 1..Len(call.tasks) : call.tasks[k].wait = 0
    THEN [call EXCEPT !.pc = "done",
                      !.result = [k \in 1..Len(call.tasks) |->
                                    ResultRecord(comms[call.tasks[k].comm], call.tasks[k].stats)]]
    ELSE [call EXCEPT !.pc = "tasks"]

\* Lines 800-849, once loadCommunitiesOnly has returned `communities`.
SearchAfterLoad(call, m, communities) ==
  IF communities = Null THEN [m |-> m, call |-> [call EXCEPT !.pc = "done", !.result = <<>>]]
  ELSE LET comms == Features(communities)
           st == StartTasks(m, comms, Filtered(comms, call.term), call.layer, 1)
       IN [m |-> st.m, call |-> Settle([call EXCEPT !.tasks = st.tasks], comms)]

(***************************************************************************)
(* The actions: one per task of the event loop.                            *)
(***************************************************************************)
Terms == { <<"p", "a">>, <<"S", "K">>, <<"p">> }

Commit(m) ==
  /\ dataCache' = m.dc
  /\ geoJsonCache' = m.gc
  /\ built' = m.built
  /\ raced' = m.raced

NSlots == Max(MaxCalls, MaxSeqCalls)
NextSlot(c) == calls[c].kind = "idle" /\ \A d \in 1..(c - 1) : calls[d].kind # "idle"
NoneInFlight == \A c \in 1..NSlots : calls[c].pc \in {"idle", "done"}

\* A caller invokes calculateCommunityStats().
StartCalc(c) ==
  /\ NextSlot(c)
  /\ LET r == LoadCommunities(Mem)
         call == [IdleCall EXCEPT !.kind = "calc", !.snap = LoadedKeys(dataCache)]
     IN /\ Commit(r.m)
        /\ calls' = [calls EXCEPT ![c] =
                       IF r.wait = 0 THEN CalcAfterLoad(call, r.m.dc)
                       ELSE [call EXCEPT !.pc = "fetchComm"]]
  /\ UNCHANGED <<failures, failed, direct, directIssued, world, chunkSizes, mapLayer, olMap, searchBar, ranking, pointTest>>

\* A caller invokes searchCommunities(term, layer).
StartSearch(c, term, layer) ==
  /\ NextSlot(c)
  /\ LET call == [IdleCall EXCEPT !.kind = "search", !.term = term, !.layer = layer,
                                  !.snap = LoadedKeys(dataCache)]
     IN IF Len(term) < 2
          THEN /\ calls' = [calls EXCEPT ![c] = [call EXCEPT !.pc = "done"]]
               /\ UNCHANGED <<dataCache, geoJsonCache, built, raced>>
          ELSE LET r == LoadCommunities(Mem)
                   a == SearchAfterLoad(call, r.m, r.m.dc["communities"])
               IN IF r.wait = 0
                    THEN Commit(a.m) /\ calls' = [calls EXCEPT ![c] = a.call]
                    ELSE Commit(r.m) /\ calls' = [calls EXCEPT ![c] = [call EXCEPT !.pc = "fetchComm"]]
  /\ UNCHANGED <<failures, failed, direct, directIssued, world, chunkSizes, mapLayer, olMap, searchBar, ranking, pointTest>>

MayFail(ok) == ok \/ failures < MaxFailures
CountFailure(key, ok) ==
  /\ failures' = IF ok THEN failures ELSE failures + 1
  /\ failed' = IF ok THEN failed ELSE failed \cup {key}

\* The fetch of the community boundaries of call c ends (ok: with a parsed
\* collection).
CommFetchDone(c, ok) ==
  /\ calls[c].pc = "fetchComm"
  /\ MayFail(ok)
  /\ LET v == FetchResult(Mem, "communities", ok)
         m == StoreLoaded(AfterFetch(Mem, "communities", ok), "communities", v)
     IN IF calls[c].kind = "calc"
          THEN Commit(m) /\ calls' = [calls EXCEPT ![c] = CalcAfterLoad(@, m.dc)]
          ELSE LET a == SearchAfterLoad(calls[c], m, v)
               IN Commit(a.m) /\ calls' = [calls EXCEPT ![c] = a.call]
  /\ CountFailure("communities", ok)
  /\ UNCHANGED <<direct, directIssued, world, chunkSizes, mapLayer, olMap, searchBar, ranking, pointTest>>

\* The fetch that callback k of search c waits for ends.
TaskFetchDone(c, k, ok) ==
  /\ calls[c].pc = "tasks"
  /\ k \in 1..Len(calls[c].tasks)
  /\ calls[c].tasks[k].wait # 0
  /\ MayFail(ok)
  /\ LET j == calls[c].tasks[k].wait
         key == Keys[j]
         v == FetchResult(Mem, key, ok)
         m == StoreLoaded(AfterFetch(Mem, key, ok), key, v)
         r == RunLoad(m, RequiredFiles(calls[c].layer), j + 1)
         comms == WorldData("communities")
         task == TaskAfterLoad(comms, calls[c].tasks[k].comm, calls[c].layer, r)
     IN /\ Commit(r.m)
        /\ calls' = [calls EXCEPT ![c] = Settle([@ EXCEPT !.tasks[k] = task], comms)]
  /\ CountFailure(Keys[calls[c].tasks[k].wait], ok)
  /\ UNCHANGED <<direct, directIssued, world, chunkSizes, mapLayer, olMap, searchBar, ranking, pointTest>>

\* The setTimeout(0) of a chunk of call c fires: the chunk is processed.
TimerFire(c) ==
  /\ calls[c].pc = "yield"
  /\ LET call == calls[c]
         metric == StageKeys[call.stage]
         feats == WorldData(metric)
         size == StageChunk[call.stage]
     IN calls' = [calls EXCEPT ![c] =
          IF \/ ChunkThrows(feats, call.idx, size)
             \/ /\ dataCache["communities"] = Null
                /\ ChunkReadsCommunities(metric, feats, call.idx, size, call.stats)
            THEN [call EXCEPT !.pc = "done", !.stats = <<>>, !.result = <<>>]
          ELSE LET st == IF dataCache["communities"] = Null THEN call.stats
                         ELSE ProcessChunk(call.stats, metric, feats, call.idx, size,
                                           Features(dataCache["communities"]))
               IN IF NextChunkStart(call.idx, size) < Len(feats)
                    THEN [call EXCEPT !.idx = NextChunkStart(@, size), !.stats = st]
                    ELSE CalcEnter(call, dataCache, st, call.stage + 1)]
  /\ UNCHANGED <<geoJsonCache, dataCache, built, failures, failed, direct, directIssued, raced,
                 world, chunkSizes, mapLayer, olMap, searchBar, ranking, pointTest>>

\* The map component calls loadGeoJSON(url) for a layer file.
DirectStart(key) ==
  /\ directIssued < MaxDirect
  /\ directIssued' = directIssued + 1
  /\ direct' = IF GeoJsonCacheHas(geoJsonCache, key) THEN direct
               ELSE [direct EXCEPT ![key] = @ + 1]
  /\ UNCHANGED <<geoJsonCache, dataCache, built, failures, failed, calls, raced, world, chunkSizes, mapLayer, olMap, searchBar, ranking, pointTest>>

\* A fetch of the map component ends.
DirectDone(key, ok) ==
  /\ direct[key] > 0
  /\ MayFail(ok)
  /\ direct' = [direct EXCEPT ![key] = @ - 1]
  /\ Commit(AfterFetch(Mem, key, ok))
  /\ CountFailure(key, ok)
  /\ UNCHANGED <<calls, directIssued, world, chunkSizes, mapLayer, olMap, searchBar, ranking, pointTest>>

(***************************************************************************)
(* calculateRankings.                                                      *)
(***************************************************************************)
RankedMetrics == {"trafficIncidents", "parks", "trafficSignals", "lrtStops", "crime"}

\* sorted.splice(p, 0, r) where p is past every record with a value >= r's:
\* the step of a stable sort with the comparator (a, b) => b[m] - a[m].
InsertDescending(sorted, r, m) ==
  LET p == Cardinality({i \in 1..Len(sorted) : sorted[i][m] >= r[m]})
  IN SubSeq(sorted, 1, p) \o <<r>> \o SubSeq(sorted, p + 1, Len(sorted))

\* [...communityStats].sort((a, b) => b[m] - a[m]) (Array.prototype.sort is
\* stable).
RECURSIVE SortDescending(_, _, _)
SortDescending(stats, m, n) ==
  IF n = 0 THEN <<>>
  ELSE InsertDescending(SortDescending(stats, m, n - 1), stats[n], m)

\* sorted.findIndex(c => c.name === name) + 1
RankOfName(sorted, name) ==
  IF \E i \in 1..Len(sorted) : sorted[i].name = name
    THEN CHOOSE i \in 1..Len(sorted) :
           /\ sorted[i].name = name
           /\ \A j \in 1..(i - 1) : sorted[j].name # name
    ELSE 0

\* calculateRankings(communityStats): the object rankings, keyed by name.
CalculateRankings(stats) ==
  [name \in {stats[i].name : i \in 1..Len(stats)} |->
     [m \in RankedMetrics |-> RankOfName(SortDescending(stats, m, Len(stats)), name)]]

NoRanking == [pc |-> "idle", stats |-> <<>>, rankings |-> <<>>]

\* calculateRankings is applied to its argument.
Rank ==
  /\ ranking.pc = "called"
  /\ ranking' = [ranking EXCEPT !.pc = "returned", !.rankings = CalculateRankings(ranking.stats)]
  /\ UNCHANGED <<geoJsonCache, dataCache, built, failures, failed, calls, raced, direct,
                 directIssued, world, chunkSizes, mapLayer, olMap, searchBar, pointTest>>

NoPointTest == [pc |-> "idle", point |-> <<>>, geometry |-> NullGeom, result |-> FALSE]

\* isPointInCommunity is applied to its arguments.
TestPoint ==
  /\ pointTest.pc = "called"
  /\ pointTest' = [pointTest EXCEPT !.pc = "returned",
                                    !.result = IsPointInCommunity(pointTest.point, pointTest.geometry)]
  /\ UNCHANGED <<geoJsonCache, dataCache, built, failures, failed, calls, raced, direct,
                 directIssued, world, chunkSizes, mapLayer, olMap, searchBar, ranking>>

IdleMap == [pc |-> "idle", waiting |-> {}, got |-> {}, tagged |-> {}]
TrafficKeys == {"trafficIncidents", "trafficSignals"}

\* The traffic layer once both loadGeoJSON calls have settled: every feature
\* of the collections it got is given properties._layerType, then the layer
\* is built.
TrafficLoaded(ml) ==
  IF ml.waiting # {} THEN ml
  ELSE [ml EXCEPT !.pc = "shown", !.tagged = @ \cup ml.got]

\* The map component loads the layer 'traffic': Promise.all of loadGeoJSON
\* for the incidents and for the signals.
ActivateTraffic ==
  /\ mapLayer.pc = "idle"
  /\ mapLayer' =
       TrafficLoaded([mapLayer EXCEPT
         !.pc = "loading",
         !.waiting = {key \in TrafficKeys : ~GeoJsonCacheHas(geoJsonCache, key)},
         !.got = {geoJsonCache[key] : key \in {k \in TrafficKeys : GeoJsonCacheHas(geoJsonCache, k)}}])
  /\ UNCHANGED <<geoJsonCache, dataCache, built, failures, failed, calls, raced, direct,
                 directIssued, world, chunkSizes, olMap, searchBar, ranking, pointTest>>

\* A fetch of that load ends.
MapFetchDone(key, ok) ==
  /\ key \in mapLayer.waiting
  /\ MayFail(ok)
  /\ Commit(AfterFetch(Mem, key, ok))
  /\ mapLayer' =
       TrafficLoaded([mapLayer EXCEPT
         !.waiting = @ \ {key},
         !.got = IF ok THEN @ \cup {FetchResult(Mem, key, ok)} ELSE @])
  /\ CountFailure(key, ok)
  /\ UNCHANGED <<calls, direct, directIssued, world, chunkSizes, olMap, searchBar, ranking, pointTest>>

(***************************************************************************)
(* The layer effect of the map component.  The map holds its vector layers *)
(* in a sequence, in the order they were added; a vector layer is named by *)
(* the layer it shows and by the run of loadLayer that built it.           *)
(***************************************************************************)
MaxSelections == 4

NoVectorLayer == [layer |-> "none", run |-> 0]
NoLayerShown ==
  [activeLayer |-> "none", vectorLayerRef |-> NoVectorLayer, layers |-> <<>>,
   loads |-> {}, selections |-> 0]

RemoveLayer(layers, vl) == SelectSeq(layers, LAMBDA x : x # vl)
RemoveAt(layers, i) == SubSeq(layers, 1, i - 1) \o SubSeq(layers, i + 1, Len(layers))

\* layers.forEach(layer => map.removeLayer(layer)) over the live array of
\* the map's layers: the array shrinks under the loop, so the element that
\* moves into the place of a removed one is not visited.
RECURSIVE RemoveOtherVectorLayers(_, _)
RemoveOtherVectorLayers(layers, i) ==
  IF i > Len(layers) THEN layers
  ELSE RemoveOtherVectorLayers(RemoveAt(layers, i), i + 1)

\* The cleanup of the effect of the previous active layer.
LayerCleanup(om) ==
  IF om.vectorLayerRef = NoVectorLayer THEN om
  ELSE [om EXCEPT !.layers = RemoveLayer(@, om.vectorLayerRef),
                  !.vectorLayerRef = NoVectorLayer]

\* loadLayer up to its await: the layer of the ref is removed, then every
\* other vector layer of the map.
LayerReset(om) ==
  [om EXCEPT !.layers = RemoveOtherVectorLayers(RemoveLayer(@, om.vectorLayerRef), 1),
             !.vectorLayerRef = NoVectorLayer]

\* loadLayer after its await, the data loaded: the vector layer is built,
\* stored in the ref and added to the map.
LayerAttach(om, vl) ==
  [om EXCEPT !.vectorLayerRef = vl, !.layers = Append(@, vl)]

\* The active layer changes: the cleanup of the previous effect runs, then
\* loadLayer of the new one, which goes on at once when the file is cached.
SelectLayer(layer) ==
  /\ layer # olMap.activeLayer
  /\ olMap.selections < MaxSelections
  /\ LET run == olMap.selections + 1
         om == [LayerReset(LayerCleanup(olMap)) EXCEPT
                  !.activeLayer = layer, !.selections = run]
     IN  olMap' =
           IF GeoJsonCacheHas(geoJsonCache, LayerKey(layer))
           THEN LayerAttach(om, [layer |-> layer, run |-> run])
           ELSE [om EXCEPT !.loads = @ \cup {[layer |-> layer, run |-> run]}]
  /\ UNCHANGED <<geoJsonCache, dataCache, built, failures, failed, calls, raced, direct,
                 directIssued, world, chunkSizes, mapLayer, searchBar, ranking, pointTest>>

\* The loadGeoJSON of a run of loadLayer settles: a failed load ends the
\* run, a loaded file is shown, whichever layer is active by then.
LayerLoadDone(r, ok) ==
  /\ r \in olMap.loads
  /\ MayFail(ok)
  /\ Commit(AfterFetch(Mem, LayerKey(r.layer), ok))
  /\ olMap' =
       LET om == [olMap EXCEPT !.loads = @ \ {r}]
       IN  IF ok THEN LayerAttach(om, r) ELSE om
  /\ CountFailure(LayerKey(r.layer), ok)
  /\ UNCHANGED <<calls, direct, directIssued, world, chunkSizes, mapLayer, searchBar, ranking, pointTest>>

(***************************************************************************)
(* The search effect of the SearchBar.  A run of performSearch is numbered *)
(* in the order the debounce timer fired; the results on display are named *)
(* by the run that set them (0: the initial empty list).  A call of        *)
(* searchCommunities resolves when its fetches have settled, so the        *)
(* responses of the searches in flight arrive in any order.                *)
(***************************************************************************)
MaxChanges == 3
DebounceMs == 200

BarTerms == { <<"p">>, <<"p", "a">>, <<"p", "a", "n">> }
BarLayers == {"parks", "traffic"}

IdleSearchBar ==
  [searchTerm |-> <<>>, activeLayer |-> "null", timer |-> 0, idle |-> <<>>,
   inFlight |-> {}, runs |-> 0, latest |-> 0, results |-> 0, changes |-> 0]

\* The effect of [searchTerm, activeLayer]: the cleanup clears the debounce
\* timer of the previous render, then a new one is set.
RestartDebounce(sb) == [sb EXCEPT !.timer = DebounceMs, !.changes = @ + 1]

\* The user edits the term.
ChangeTerm(term) ==
  /\ term # searchBar.searchTerm
  /\ searchBar.changes < MaxChanges
  /\ searchBar' = RestartDebounce([searchBar EXCEPT !.searchTerm = term])
  /\ UNCHANGED <<geoJsonCache, dataCache, built, failures, failed, calls, raced, direct,
                 directIssued, world, chunkSizes, mapLayer, olMap, ranking, pointTest>>

\* The active layer changes.
ChangeLayer(layer) ==
  /\ layer # searchBar.activeLayer
  /\ searchBar.changes < MaxChanges
  /\ searchBar' = RestartDebounce([searchBar EXCEPT !.activeLayer = layer])
  /\ UNCHANGED <<geoJsonCache, dataCache, built, failures, failed, calls, raced, direct,
                 directIssued, world, chunkSizes, mapLayer, olMap, ranking, pointTest>>

\* The debounce timer fires, 200 ms after the last change: performSearch.
\* A term of fewer than 2 characters empties the results; any other term
\* queues the search for an idle period.
PerformSearch ==
  /\ searchBar.timer = DebounceMs
  /\ LET n == searchBar.runs + 1
         sb == [searchBar EXCEPT !.timer = 0, !.runs = n]
     IN searchBar' =
          IF Len(searchBar.searchTerm) < 2
            THEN [sb EXCEPT !.results = n, !.latest = n]
          ELSE [sb EXCEPT !.idle = Append(@, [term |-> searchBar.searchTerm,
                                              layer |-> searchBar.activeLayer, run |-> n])]
  /\ UNCHANGED <<geoJsonCache, dataCache, built, failures, failed, calls, raced, direct,
                 directIssued, world, chunkSizes, mapLayer, olMap, ranking, pointTest>>

\* The idle callback runs: searchCommunities(searchTerm, activeLayer) is
\* called with the term and layer of its render.
SearchIdle ==
  /\ Len(searchBar.idle) > 0
  /\ searchBar' = [searchBar EXCEPT !.idle = Tail(@), !.inFlight = @ \cup {Head(searchBar.idle)},
                                    !.latest = Head(searchBar.idle).run]
  /\ UNCHANGED <<geoJsonCache, dataCache, built, failures, failed, calls, raced, direct,
                 directIssued, world, chunkSizes, mapLayer, olMap, ranking, pointTest>>

\* The promise of a search settles: setResults(searchResults || []), or
\* setResults([]) in the catch.
SearchSettles(s) ==
  /\ s \in searchBar.inFlight
  /\ searchBar' = [searchBar EXCEPT !.inFlight = @ \ {s}, !.results = s.run]
  /\ UNCHANGED <<geoJsonCache, dataCache, built, failures, failed, calls, raced, direct,
                 directIssued, world, chunkSizes, mapLayer, olMap, ranking, pointTest>>

\* The state when the modules have been loaded: empty caches, no call made.
Fresh ==
  /\ geoJsonCache = [k \in KeySet |-> Null]
  /\ dataCache = [k \in KeySet |-> Null]
  /\ built = [k \in KeySet |-> 0]
  /\ failures = 0
  /\ calls = [c \in 1..NSlots |-> IdleCall]
  /\ direct = [k \in KeySet |-> 0]
  /\ directIssued = 0
  /\ raced = [k \in KeySet |-> FALSE]
  /\ failed = {}
  /\ mapLayer = IdleMap
  /\ olMap = NoLayerShown
  /\ searchBar = IdleSearchBar
  /\ ranking = NoRanking
  /\ pointTest = NoPointTest

Init ==
  /\ world = DefaultWorld
  /\ chunkSizes = ProgramChunkSizes
  /\ Fresh

\* A task of a call of the facade that is in flight.
Progress ==
  \/ \E c \in 1..NSlots, ok \in BOOLEAN : CommFetchDone(c, ok)
  \/ \E c \in 1..NSlots, k \in 1..MaxResults, ok \in BOOLEAN : TaskFetchDone(c, k, ok)
  \/ \E c \in 1..NSlots : TimerFire(c)

\* Facade calls, up to MaxCalls of them, started at any time.
Next ==
  \/ \E c \in 1..MaxCalls : StartCalc(c)
  \/ \E c \in 1..MaxCalls, term \in Terms, layer \in Layers : StartSearch(c, term, layer)
  \/ Progress

Spec == Init /\ [][Next]_vars

\* Facade calls made one after the other: a call starts when the call before
\* it has returned.
SeqTerms == { <<"p", "a">>, <<"p", "h">> }
SeqLayers == {"parks", "traffic", "flood", "null"}

NextSeq ==
  \/ \E c \in 1..MaxSeqCalls : NoneInFlight /\ StartCalc(c)
  \/ \E c \in 1..MaxSeqCalls, term \in SeqTerms, layer \in SeqLayers :
       NoneInFlight /\ StartSearch(c, term, layer)
  \/ Progress

SpecSeq == Init /\ [][NextSeq]_vars

\* The loads of the statistics module together with the map component's own
\* loadGeoJSON calls for the same files.
CacheTerms == { <<"p", "a">> }
CacheLayers == {"parks", "lrt_stops"}
DirectKeys == {"communities", "parks"}

NextCache ==
  \/ \E c \in 1..MaxCalls : StartCalc(c)
  \/ \E c \in 1..MaxCalls, term \in CacheTerms, layer \in CacheLayers : StartSearch(c, term, layer)
  \/ Progress
  \/ \E key \in DirectKeys : DirectStart(key)
  \/ \E key \in DirectKeys, ok \in BOOLEAN : DirectDone(key, ok)

SpecCache == Init /\ [][NextCache]_vars

(***************************************************************************)
(* The full aggregation over other data: boundary collections with equal   *)
(* and with missing ids, candidate collections of up to MaxFeatures         *)
(* features, and every chunk size up to MaxChunk.  A search loads the      *)
(* candidate collections, then the full aggregation runs.                  *)
(***************************************************************************)
MaxFeatures == 3
MaxChunk == 3

CommunityBWithIdOfA == [CommunityB EXCEPT !.properties.id = CommunityA.properties.id]
WithoutId(c) == [c EXCEPT !.properties.id = NoId]

ChunkBoundaries ==
  { <<CommunityA>>,
    <<CommunityA, CommunityB>>,
    <<CommunityA, CommunityBWithIdOfA>>,
    <<WithoutId(CommunityA), WithoutId(CommunityB)>> }

\* A point in the first boundary, a point in the second, a feature without
\* geometry, and a polygon of two rings that starts in the first boundary.
FeaturePool ==
  { Plain(PointGeom(<<1, 1>>)),
    Plain(PointGeom(<<7, 1>>)),
    Plain(NullGeom),
    Plain(PolygonGeom(<<Square(1, 1, 8, 3), Square(2, 2, 3, 3)>>)) }

FeatureLists == UNION {[1..n -> FeaturePool] : n \in 0..MaxFeatures}

StageKeySet == {StageKeys[s] : s \in 1..Len(StageKeys)}

ChunkWorld(comms, feats) ==
  [key \in KeySet |->
     IF key = "communities" THEN comms
     ELSE IF key \in StageKeySet THEN feats
     ELSE DefaultWorld[key]]

ChunkLayers == {"traffic", "parks", "lrt_stops", "flood"}

InitChunk ==
  /\ \E comms \in ChunkBoundaries, feats \in FeatureLists : world = ChunkWorld(comms, feats)
  /\ \E k \in 1..MaxChunk : chunkSizes = [s \in 1..Len(StageKeys) |-> k]
  /\ Fresh

NextChunk ==
  \/ \E layer \in ChunkLayers : StartSearch(1, <<"p", "a">>, layer)
  \/ NoneInFlight /\ StartCalc(2)
  \/ Progress

SpecChunk == InitChunk /\ [][NextChunk]_vars

(***************************************************************************)
(* The search over boundary collections of up to MaxBoundaries boundaries, *)
(* more than MaxResults of them matching.                                  *)
(***************************************************************************)
MaxBoundaries == 12

\* The boundary at position i: matching by name, by code, or not at all.
ByName(i) == Community(i, <<"S", "p", "a", "n">>, <<"S", "K">>, 0, PolygonGeom(<<Square(0, 0, 4, 4)>>))
ByCode(i) == Community(i, <<"O", "a", "k">>, <<"K", "P", "A">>, 0, PolygonGeom(<<Square(6, 0, 10, 4)>>))
NoMatch(i) == Community(i, <<"O", "a", "k">>, <<"P", "K">>, 0, PolygonGeom(<<Square(6, 0, 10, 4)>>))

SearchBoundaries ==
  { [i \in 1..n |-> ByName(i)] : n \in {1, MaxBoundaries} }
  \cup { [i \in 1..MaxBoundaries |-> IF i = 1 THEN NoMatch(i) ELSE ByCode(i)],
         [i \in 1..MaxBoundaries |-> IF i % 2 = 0 THEN NoMatch(i)
                                     ELSE IF i % 4 = 1 THEN ByName(i) ELSE ByCode(i)],
         [i \in 1..3 |-> NoMatch(i)] }

SearchTerms == { <<"p", "a">>, <<"P", "A">>, <<"s", "P", "a", "N">>, <<"p">> }
SearchLayers == {"parks", "null"}

InitSearch ==
  /\ \E comms \in SearchBoundaries : world = [DefaultWorld EXCEPT !["communities"] = comms]
  /\ chunkSizes = ProgramChunkSizes
  /\ Fresh

NextSearch ==
  \/ \E term \in SearchTerms, layer \in SearchLayers : StartSearch(1, term, layer)
  \/ \E ok \in BOOLEAN : CommFetchDone(1, ok)
  \/ \E k \in 1..MaxResults, ok \in BOOLEAN : TaskFetchDone(1, k, ok)

SpecSearch == InitSearch /\ [][NextSearch]_vars

(***************************************************************************)
(* A search, then a full aggregation, over other candidate data and other  *)
(* boundaries: LRT lines of both line types, boundaries without geometry,  *)
(* MultiPolygon boundaries.                                                *)
(***************************************************************************)
MaxStops == 2
MaxLines == 1

StopPool == { Plain(PointGeom(<<1, 1>>)), Plain(PointGeom(<<3, 3>>)), Plain(PointGeom(<<7, 3>>)) }

MultiLineGeom(ls) == [type |-> "MultiLineString", coordinates |-> ls]

\* A line inside the first boundary, a line that crosses it with both ends
\* outside, a MultiLineString inside it, and a line elsewhere.
LinePool ==
  { Plain(LineGeom(<< <<1, 1>>, <<2, 2>>, <<3, 1>> >>)),
    Plain(LineGeom(<< <<-2, 2>>, <<5, 2>> >>)),
    Plain(MultiLineGeom(<< << <<1, 1>>, <<2, 1>> >>, << <<20, 20>>, <<21, 21>> >> >>)),
    Plain(LineGeom(<< <<20, 20>>, <<21, 20>> >>)) }

ListsOf(S, n) == UNION {[1..m -> S] : m \in 0..n}

LrtWorlds ==
  { [DefaultWorld EXCEPT !["lrtStops"] = stops, !["lrtLines"] = lines] :
      stops \in ListsOf(StopPool, MaxStops), lines \in ListsOf(LinePool, MaxLines) }

\* The data of the deployment with the major roads drawn from the same lines.
RoadWorlds ==
  {[DefaultWorld EXCEPT !["majorRoads"] = lines] : lines \in ListsOf(LinePool, MaxLines)}

JoinWorlds == LrtWorlds \cup RoadWorlds

JoinTerms == { <<"p", "h">>, <<"p", "a">> }
JoinLayers == {"lrt", "parks", "traffic", "flood", "major_roads"}

InitJoin ==
  /\ world \in JoinWorlds
  /\ chunkSizes = ProgramChunkSizes
  /\ Fresh

NextJoin ==
  \/ \E term \in JoinTerms, layer \in JoinLayers : StartSearch(1, term, layer)
  \/ NoneInFlight /\ StartCalc(2)
  \/ Progress

SpecJoin == InitJoin /\ [][NextJoin]_vars

(***************************************************************************)
(* Collections with a malformed feature: an entry that is null, a feature  *)
(* without geometry, a geometry without coordinates.                       *)
(***************************************************************************)
MalformedFeatures ==
  { Null, Plain(NullGeom), Plain([type |-> "Point"]) }

\* seq with x put in at position i
InsertAt(seq, i, x) == SubSeq(seq, 1, i - 1) \o <<x>> \o SubSeq(seq, i, Len(seq))

MalformedKeys == {"trafficIncidents", "trafficSignals", "floodZones"}

\* The data of the deployment with one malformed feature in one collection.
MalformedWorlds ==
  {[DefaultWorld EXCEPT ![key] = InsertAt(@, i, bad)] :
     key \in MalformedKeys, i \in 1..2, bad \in MalformedFeatures}

MalformedLayers == {"traffic", "flood"}

InitMalformed == world \in MalformedWorlds /\ chunkSizes = ProgramChunkSizes /\ Fresh

NextMalformed ==
  \/ \E term \in SeqTerms, layer \in MalformedLayers : NoneInFlight /\ StartSearch(1, term, layer)
  \/ NoneInFlight /\ StartCalc(2)
  \/ Progress

SpecMalformed == InitMalformed /\ [][NextMalformed]_vars

(***************************************************************************)
(* Boundaries without a geometry that can be read: geometry null, a        *)
(* geometry without coordinates, a geometry of a type that is no region.   *)
(***************************************************************************)
WithGeometry(c, g) == [c EXCEPT !.geometry = g]

UnreadableGeometries ==
  { NullGeom, [type |-> "Polygon"],
    [type |-> "GeometryCollection", coordinates |-> <<Square(0, 0, 4, 4)>>] }

BoundaryLists ==
  {<<CommunityA, WithGeometry(CommunityB, g)>> : g \in UnreadableGeometries}
  \cup {<<WithGeometry(CommunityA, g), CommunityB>> : g \in UnreadableGeometries}
  \cup {<<CommunityA, WithGeometry(CommunityBWithIdOfA, g)>> : g \in UnreadableGeometries}

BoundaryWorlds == {[DefaultWorld EXCEPT !["communities"] = comms] : comms \in BoundaryLists}

BoundaryLayers == {"traffic", "flood", "parks", "lrt"}

InitBoundary == world \in BoundaryWorlds /\ chunkSizes = ProgramChunkSizes /\ Fresh

NextBoundary ==
  \/ \E term \in SeqTerms, layer \in BoundaryLayers : NoneInFlight /\ StartSearch(1, term, layer)
  \/ NoneInFlight /\ StartCalc(2)
  \/ Progress

SpecBoundary == InitBoundary /\ [][NextBoundary]_vars

(***************************************************************************)
(* Full aggregations in flight at the same time, over a cache that a       *)
(* search has filled before.                                               *)
(***************************************************************************)
ConcLayers == {"traffic", "parks", "flood", "lrt_stops"}

InitConc ==
  /\ world = DefaultWorld
  /\ \E k \in 1..MaxChunk : chunkSizes = [s \in 1..Len(StageKeys) |-> k]
  /\ Fresh

NextConc ==
  \/ \E layer \in ConcLayers : StartSearch(1, <<"p", "a">>, layer)
  \/ \E c \in 2..3 : calls[1].pc = "done" /\ StartCalc(c)
  \/ Progress

SpecConc == InitConc /\ [][NextConc]_vars

(***************************************************************************)
(* calculateRankings over every list of up to MaxRecords records.          *)
(***************************************************************************)
MaxRecords == 3
MaxValue == 1

RankNames == { <<>>, <<"a">>, <<"b">> }

\* Result records: the name, and the ranked metrics (two of them vary).
RankRecords ==
  {[name |-> n, trafficIncidents |-> t, parks |-> 0, trafficSignals |-> 0, lrtStops |-> 0,
    crime |-> cr] : n \in RankNames, t \in 0..MaxValue, cr \in 0..MaxValue}

InitRank ==
  /\ world = DefaultWorld
  /\ chunkSizes = ProgramChunkSizes
  /\ geoJsonCache = [k \in KeySet |-> Null]
  /\ dataCache = [k \in KeySet |-> Null]
  /\ built = [k \in KeySet |-> 0]
  /\ failures = 0
  /\ calls = [c \in 1..NSlots |-> IdleCall]
  /\ direct = [k \in KeySet |-> 0]
  /\ directIssued = 0
  /\ raced = [k \in KeySet |-> FALSE]
  /\ failed = {}
  /\ mapLayer = IdleMap
  /\ olMap = NoLayerShown
  /\ searchBar = IdleSearchBar
  /\ pointTest = NoPointTest
  /\ \E stats \in ListsOf(RankRecords, MaxRecords) :
       ranking = [pc |-> "called", stats |-> stats, rankings |-> <<>>]

SpecRank == InitRank /\ [][Rank]_vars

(***************************************************************************)
(* isPointInCommunity over MultiPolygon boundaries of up to MaxPolygons     *)
(* polygons, read by the library and by the fallback.                      *)
(***************************************************************************)
MaxPolygons == 2

\* Polygons with their vertices on even coordinates, one of them with a hole.
PolygonPool ==
  { <<Square(0, 0, 4, 4)>>, <<Square(2, 2, 6, 6)>>, <<Square(0, 0, 2, 2)>>,
    <<Square(0, 0, 6, 6), Square(2, 2, 4, 4)>> }

\* Points on odd coordinates: on no edge of a polygon of the pool.
TestPoints == {<<x, y>> : x \in {1, 3, 5, 7}, y \in {1, 3, 5}}

\* A geometry the library throws on (one of its rings is no array of
\* positions), its other members as they are.
Broken(g) == [type |-> g.type, coordinates |-> g.coordinates, broken |-> TRUE]

MultiPolygons ==
  {MultiPolygonGeom(polys) : polys \in UNION {[1..n -> PolygonPool] : n \in 1..MaxPolygons}}

InitPointTest ==
  /\ world = DefaultWorld
  /\ chunkSizes = ProgramChunkSizes
  /\ geoJsonCache = [k \in KeySet |-> Null]
  /\ dataCache = [k \in KeySet |-> Null]
  /\ built = [k \in KeySet |-> 0]
  /\ failures = 0
  /\ calls = [c \in 1..NSlots |-> IdleCall]
  /\ direct = [k \in KeySet |-> 0]
  /\ directIssued = 0
  /\ raced = [k \in KeySet |-> FALSE]
  /\ failed = {}
  /\ mapLayer = IdleMap
  /\ olMap = NoLayerShown
  /\ searchBar = IdleSearchBar
  /\ ranking = NoRanking
  /\ \E p \in TestPoints, g \in MultiPolygons \cup {Broken(m) : m \in MultiPolygons} :
       pointTest = [pc |-> "called", point |-> p, geometry |-> g, result |-> FALSE]

SpecPointTest == InitPointTest /\ [][TestPoint]_vars

(***************************************************************************)
(* isPointInCommunity over the closed rings of up to MaxVertices distinct  *)
(* vertices of the grid 0..MaxGrid, read by the library and by the         *)
(* fallback.                                                               *)
(***************************************************************************)
MaxGrid == 2
MaxVertices == 4

GridPoints == {<<x, y>> : x \in 0..MaxGrid, y \in 0..MaxGrid}

\* The points tested: those of the grid and those one step beyond it.
RingTestPoints == {<<x, y>> : x \in 0..(MaxGrid + 1), y \in 0..(MaxGrid + 1)}

\* A closed ring: its first position repeated at its end.
CloseRing(vs) == vs \o <<vs[1]>>

ClosedRings ==
  {CloseRing(vs) : vs \in {v \in UNION {[1..n -> GridPoints] : n \in 3..MaxVertices} :
                            \A i, j \in DOMAIN v : i # j => v[i] # v[j]}}

RingGeometries ==
  {PolygonGeom(<<r>>) : r \in ClosedRings} \cup {Broken(PolygonGeom(<<r>>)) : r \in ClosedRings}

InitRing ==
  /\ world = DefaultWorld
  /\ chunkSizes = ProgramChunkSizes
  /\ geoJsonCache = [k \in KeySet |-> Null]
  /\ dataCache = [k \in KeySet |-> Null]
  /\ built = [k \in KeySet |-> 0]
  /\ failures = 0
  /\ calls = [c \in 1..NSlots |-> IdleCall]
  /\ direct = [k \in KeySet |-> 0]
  /\ directIssued = 0
  /\ raced = [k \in KeySet |-> FALSE]
  /\ failed = {}
  /\ mapLayer = IdleMap
  /\ olMap = NoLayerShown
  /\ searchBar = IdleSearchBar
  /\ ranking = NoRanking
  /\ \E p \in RingTestPoints, g \in RingGeometries :
       pointTest = [pc |-> "called", point |-> p, geometry |-> g, result |-> FALSE]

SpecRing == InitRing /\ [][TestPoint]_vars

(***************************************************************************)
(* The facade together with the map component showing the traffic layer.   *)
(***************************************************************************)
MapTerms == { <<"p", "h">> }
MapLayers == {"traffic", "parks"}

NextMap ==
  \/ \E c \in 1..MaxCalls : StartCalc(c)
  \/ \E c \in 1..MaxCalls, term \in MapTerms, layer \in MapLayers : StartSearch(c, term, layer)
  \/ Progress
  \/ ActivateTraffic
  \/ \E key \in TrafficKeys, ok \in BOOLEAN : MapFetchDone(key, ok)

SpecMap == Init /\ [][NextMap]_vars

\* The user changes the active layer at any time; the loads settle in any
\* order.
NextLayer ==
  \/ \E layer \in ViewLayers : SelectLayer(layer)
  \/ \E layer \in ViewLayers, run \in 1..MaxSelections, ok \in BOOLEAN :
       LayerLoadDone([layer |-> layer, run |-> run], ok)

SpecLayer == Init /\ [][NextLayer]_vars

\* The user edits the term and changes the layer at any time.
NextSearchBar ==
  \/ \E term \in BarTerms : ChangeTerm(term)
  \/ \E layer \in BarLayers : ChangeLayer(layer)
  \/ PerformSearch
  \/ SearchIdle
  \/ \E term \in BarTerms, layer \in BarLayers, run \in 1..MaxChanges :
       SearchSettles([term |-> term, layer |-> layer, run |-> run])

SpecSearchBar == Init /\ [][NextSearchBar]_vars

(***************************************************************************)
(* Properties of the caches.                                               *)
(***************************************************************************)

\* C1: once the session cache entry of a source holds a loaded collection,
\* no step (a load that completes later, a failing load) resets it to null
\* or replaces it by a collection with other content.
C1_CacheNeverReset ==
  [][\A key \in KeySet :
       dataCache[key] # Null =>
         /\ dataCache'[key] # Null
         /\ Features(dataCache'[key]) = Features(dataCache[key])]_vars

\* What a request for the source returns in the current state: through
\* loadDataFile, loadCommunitiesOnly or loadAllData, and through loadGeoJSON.
RequestAnswers(key) == {CachedAnswer(Mem, key), geoJsonCache[key]}

C19_CachedFeaturesUnchanged ==
  \A key \in KeySet :
    /\ dataCache[key] # Null => Features(dataCache[key]) = WorldData(key)
    /\ geoJsonCache[key] # Null => Features(geoJsonCache[key]) = WorldData(key)

(***************************************************************************)
(* Properties of the full aggregation.                                     *)
(***************************************************************************)
CalcDone(c) == calls[c].kind = "calc" /\ calls[c].pc = "done"
SearchDone(c) == calls[c].kind = "search" /\ calls[c].pc = "done"

\* C3: a full aggregation whose fetches all succeed leaves every candidate
\* collection (incidents, parks, signals, LRT stops, flood zones) loaded in
\* the cache.
C3_CalcLoadsEveryCollection ==
  \A c \in DOMAIN calls :
    (CalcDone(c) /\ failures = 0) => CandidateKeys \subseteq LoadedKeys(dataCache)

Metrics(r) ==
  [trafficIncidents |-> r.trafficIncidents, parks |-> r.parks,
   trafficSignals |-> r.trafficSignals, lrtStops |-> r.lrtStops, floodRisk |-> r.floodRisk]
MetricsById(result) == {<<result[k].id, Metrics(result[k])>> : k \in 1..Len(result)}

\* C4: two full aggregations over the same source data (no fetch has failed)
\* return the same metric values for every boundary, whatever searches ran
\* before or between them.
C4_CalcIdempotent ==
  \A c, d \in DOMAIN calls :
    (CalcDone(c) /\ CalcDone(d) /\ failures = 0) =>
      MetricsById(calls[c].result) = MetricsById(calls[d].result)

\* A zone and a boundary overlap: a vertex of one lies inside the other.
Overlap(zg, bg) ==
  \/ \E q \in RingPoints(bg.coordinates[1]) : RingContains(q, zg.coordinates[1])
  \/ \E q \in RingPoints(zg.coordinates[1]) : RingContains(q, bg.coordinates[1])

PositiveFlow(zone) ==
  /\ ~zone.properties.flow_rate.absent
  /\ ~zone.properties.flow_rate.isNull
  /\ zone.properties.flow_rate.v >= 1

\* C7: when the flood zones are loaded as a full aggregation starts, every
\* boundary that a zone with a positive flow_rate overlaps is returned with
\* floodRisk = true.
C7_PositiveZoneSetsFloodRisk ==
  \A c \in DOMAIN calls :
    (CalcDone(c) /\ "floodZones" \in calls[c].snap /\ failures = 0) =>
      \A k \in 1..Len(calls[c].result) :
        (\E z \in 1..Len(WorldData("floodZones")) :
           /\ PositiveFlow(WorldData("floodZones")[z])
           /\ Overlap(WorldData("floodZones")[z].geometry, calls[c].result[k].geometry))
        => calls[c].result[k].floodRisk

\* C8: in the results of both facade calls, floodRisk = true implies that a
\* zone with a present, positive flow_rate lies over the boundary; a zone
\* without one never sets the flag.
C8_FloodRiskNeedsPositiveZone ==
  \A c \in DOMAIN calls :
    calls[c].pc = "done" =>
      \A k \in 1..Len(calls[c].result) :
        calls[c].result[k].floodRisk =>
          \E z \in 1..Len(WorldData("floodZones")) :
            /\ PositiveFlow(WorldData("floodZones")[z])
            /\ ExtentsOverlap(Extent(WorldData("floodZones")[z].geometry),
                              Extent(calls[c].result[k].geometry))

\* A flood search that flags one boundary and leaves unflagged a boundary
\* that only a zone without a positive flow_rate overlaps.
C8_Witness ==
  \E c \in DOMAIN calls :
    /\ SearchDone(c)
    /\ calls[c].layer \in FloodLayers
    /\ \E k \in 1..Len(calls[c].result) : calls[c].result[k].floodRisk
    /\ \E k \in 1..Len(calls[c].result) :
         /\ ~calls[c].result[k].floodRisk
         /\ \E z \in 1..Len(WorldData("floodZones")) :
              /\ ~PositiveFlow(WorldData("floodZones")[z])
              /\ Overlap(WorldData("floodZones")[z].geometry, calls[c].result[k].geometry)

(***************************************************************************)
(* Properties of the dataset loops.                                        *)
(***************************************************************************)
\* The counters of a dataset when its whole collection is one chunk.
SingleChunk(metric) ==
  LET comms == world["communities"]
  IN ProcessChunk(InitStats(comms), metric, world[metric], 0, Len(world[metric]), comms)

\* C5: for every candidate collection of N features and every chunk size k
\* with 1 <= k < N, the counters the chunked loop of the full aggregation
\* returns for every boundary are those of processing the collection as one
\* chunk of size N.
C5_ChunkedEqualsSingleChunk ==
  \A c \in DOMAIN calls :
    CalcDone(c) =>
      \A s \in 1..Len(StageKeys) :
        LET metric == StageKeys[s]
        IN (/\ Loaded(dataCache, metric)
            /\ chunkSizes[s] >= 1
            /\ chunkSizes[s] < Len(world[metric])) =>
             \A k \in 1..Len(calls[c].result) :
               calls[c].result[k][metric] = SingleChunk(metric)[k][metric]

\* A full aggregation that ran a loop over three features in chunks of two
\* and counted all three for one boundary.
C5_Witness ==
  \E c \in DOMAIN calls, s \in 1..Len(StageKeys) :
    /\ CalcDone(c)
    /\ Loaded(dataCache, StageKeys[s])
    /\ chunkSizes[s] = 2
    /\ Len(world[StageKeys[s]]) = 3
    /\ \E k \in 1..Len(calls[c].result) : calls[c].result[k][StageKeys[s]] = 3

PairwiseDisjoint(comms) ==
  \A i, j \in 1..Len(comms) :
    i # j => ~ExtentsOverlap(Extent(comms[i].geometry), Extent(comms[j].geometry))

RECURSIVE SumOfMetric(_, _, _)
SumOfMetric(result, metric, k) ==
  IF k > Len(result) THEN 0 ELSE result[k][metric] + SumOfMetric(result, metric, k + 1)

\* C6: in every dataset pass of the full aggregation over pairwise disjoint
\* boundaries, the counts of the metric, summed over the result records, are
\* at most the number of features of the candidate collection.
C6_SumAtMostFeatureCount ==
  \A c \in DOMAIN calls :
    (CalcDone(c) /\ PairwiseDisjoint(world["communities"])) =>
      \A s \in 1..Len(StageKeys) :
        SumOfMetric(calls[c].result, StageKeys[s], 1) <= Len(world[StageKeys[s]])

\* The largest chunk of the dataset loops.
LargestChunk == MaxOf({chunkSizes[s] : s \in 1..Len(StageKeys)})

\* C13: in a full aggregation every candidate collection, the flood zones
\* included, is processed in chunks with a yield between consecutive chunks:
\* the task between two consecutive yields (or a yield and the return) tests
\* at most one chunk of candidate features, whichever task of the run it is.
C13_OneChunkBetweenYields ==
  [][\A c \in DOMAIN calls :
       (calls'[c].kind = "calc" /\ calls'[c] # calls[c]) =>
         TestedByCalcTask(calls[c], calls'[c], dataCache') <=
           IF calls[c].pc = "yield" THEN chunkSizes[calls[c].stage] ELSE LargestChunk]_vars

(***************************************************************************)
(* Properties of the targeted search.                                      *)
(***************************************************************************)
\* Callback k of search c computes its statistics in this step.
CallbackCompletes(c, k) ==
  /\ calls'[c].kind = "search"
  /\ calls'[c].layer # "null"
  /\ k \in 1..Len(calls'[c].tasks)
  /\ calls'[c].tasks[k].wait = 0
  /\ (k \notin 1..Len(calls[c].tasks) \/ calls[c].tasks[k].wait # 0)

\* C12: a search processes the candidate features in bounded chunks with a
\* yield between chunks: the task in which a callback computes its statistics
\* tests no more candidate features than a chunk holds.
C12_SearchTestsInChunks ==
  [][\A c \in DOMAIN calls : \A k \in 1..MaxResults :
       CallbackCompletes(c, k) => TestedByCallback(calls'[c].layer, dataCache') <= LargestChunk]_vars

ContainsIgnoringCase(s, t) ==
  \E i \in 0..(Len(s) - Len(t)) : \A k \in 1..Len(t) : ToLowerChar(s[i + k]) = ToLowerChar(t[k])

\* The positions of the boundaries whose name or code contains the term.
MatchPositions(comms, term) ==
  {i \in 1..Len(comms) :
     \/ ContainsIgnoringCase(comms[i].properties.name, term)
     \/ ContainsIgnoringCase(comms[i].properties.comm_code, term)}

\* The first ten of them.
FirstMatches(comms, term) ==
  {i \in MatchPositions(comms, term) :
     Cardinality({j \in MatchPositions(comms, term) : j < i}) < 10}

\* The results are the boundaries at the positions P, in collection order
\* (the id of a boundary of these collections is its position).
ResultsAre(result, comms, P) ==
  /\ Len(result) = Cardinality(P)
  /\ \A k \in 1..Len(result) :
       /\ result[k].id \in P
       /\ result[k].name = comms[result[k].id].properties.name
       /\ result[k].code = comms[result[k].id].properties.comm_code
       /\ k < Len(result) => result[k].id < result[k + 1].id

\* C9 (as claimed): for every search term and boundary collection, a search
\* whose fetches succeed returns at most 10 results, the first (up to 10)
\* boundaries in collection order whose name or code contains the term,
\* case-insensitively.
C9_FirstTenMatchesAnyTerm ==
  \A c \in DOMAIN calls :
    (SearchDone(c) /\ failures = 0) =>
      /\ Len(calls[c].result) <= 10
      /\ ResultsAre(calls[c].result, world["communities"],
                    FirstMatches(world["communities"], calls[c].term))

\* C9 (amended): for every search term of at least two characters and every
\* boundary collection that has been loaded, the search returns at most 10
\* results, the first (up to 10) boundaries in collection order whose name
\* or code contains the term, case-insensitively, in whatever order the
\* statistics of the boundaries complete.
C9_FirstTenMatches ==
  \A c \in DOMAIN calls :
    (SearchDone(c) /\ Len(calls[c].term) >= 2 /\ dataCache["communities"] # Null) =>
      /\ Len(calls[c].result) <= 10
      /\ ResultsAre(calls[c].result, world["communities"],
                    FirstMatches(world["communities"], calls[c].term))

\* A search over a collection whose first boundary does not match and that
\* has more than ten matches, one of whose fetches failed.
C9_Witness ==
  \E c \in DOMAIN calls :
    /\ SearchDone(c)
    /\ Len(calls[c].result) = 10
    /\ calls[c].result[1].id = 2
    /\ Cardinality(MatchPositions(world["communities"], calls[c].term)) > 10
    /\ failures = 1
CounterNames ==
  {"lrtStops", "lrtLines", "parks", "trafficIncidents", "trafficSignals", "floodRisk", "majorRoads"}

\* The counters that belong to a layer.
CountersOf(layer) ==
  CASE layer \in {"lrt", "lrt_lines", "lrt_stops"} -> {"lrtStops", "lrtLines"}
    [] layer = "parks" -> {"parks"}
    [] layer \in {"traffic", "traffic_incidents", "traffic_signals"} ->
         {"trafficIncidents", "trafficSignals"}
    [] layer \in {"flood", "flood_01_chance"} -> {"floodRisk"}
    [] layer = "major_roads" -> {"majorRoads"}
    [] OTHER -> {}

\* Whether the point lies inside the region of a Polygon or MultiPolygon
\* boundary (inside an outer ring and in none of its holes).
InsidePolygon(p, rings) ==
  /\ Len(rings) >= 1
  /\ RingContains(p, rings[1])
  /\ \A h \in 2..Len(rings) : ~RingContains(p, rings[h])
InsideBoundary(p, g) ==
  /\ HasField(g, "coordinates")
  /\ IF g.type = "Polygon" THEN InsidePolygon(p, g.coordinates)
     ELSE \E k \in 1..Len(g.coordinates) : InsidePolygon(p, g.coordinates[k])

\* The first, middle and last vertex of a line.
SampledOfLine(l) == IF Len(l) = 0 THEN {} ELSE {l[1], l[(Len(l) \div 2) + 1], l[Len(l)]}
\* The sampled vertices of a line feature: of every constituent line for a
\* MultiLineString.
SampledVertices(f) ==
  IF ~HasField(f.geometry, "coordinates") THEN {}
  ELSE IF f.geometry.type = "LineString" THEN SampledOfLine(f.geometry.coordinates)
  ELSE IF f.geometry.type = "MultiLineString"
    THEN UNION {SampledOfLine(f.geometry.coordinates[k]) : k \in 1..Len(f.geometry.coordinates)}
  ELSE {}

StopsInside(g) ==
  Cardinality({i \in 1..Len(world["lrtStops"]) :
                 /\ HasField(world["lrtStops"][i].geometry, "coordinates")
                 /\ InsideBoundary(world["lrtStops"][i].geometry.coordinates, g)})
LinesThrough(g) ==
  Cardinality({i \in 1..Len(world["lrtLines"]) :
                 \E q \in SampledVertices(world["lrtLines"][i]) : InsideBoundary(q, g)})

\* C11: a search for the layer 'lrt' whose loads succeed returns, for each
\* matched boundary, lrtStops = the number of LRT stops inside it and
\* lrtLines = the number of LRT lines passing through it (a sampled vertex
\* of the line is inside); one matched boundary with 2 stops and 1 line
\* gives one result with lrtStops = 2 and lrtLines = 1.
C11_LrtCounts ==
  \A c \in DOMAIN calls :
    (SearchDone(c) /\ calls[c].layer = "lrt" /\ failures = 0) =>
      \A k \in 1..Len(calls[c].result) :
        /\ calls[c].result[k].lrtStops = StopsInside(calls[c].result[k].geometry)
        /\ calls[c].result[k].lrtLines = LinesThrough(calls[c].result[k].geometry)

\* C10: every record of a search for layer L has the counters that do not
\* belong to L at their initial value (0, false), whatever the cache holds.
C10_OnlyLayerCounters ==
  \A c \in DOMAIN calls :
    SearchDone(c) =>
      \A k \in 1..Len(calls[c].result) :
        \A f \in CounterNames \ CountersOf(calls[c].layer) :
          IF f = "floodRisk" THEN calls[c].result[k][f] = FALSE
          ELSE calls[c].result[k][f] = 0

\* An LRT search that counted a stop while the parks were in the cache.
C10_Witness ==
  \E c \in DOMAIN calls :
    /\ SearchDone(c)
    /\ calls[c].layer \in LrtLayers
    /\ "parks" \in calls[c].snap
    /\ \E k \in 1..Len(calls[c].result) : calls[c].result[k].lrtStops > 0

(***************************************************************************)
(* Failed loads.                                                           *)
(***************************************************************************)
\* The source a counter is computed from.
CounterSource ==
  [lrtStops |-> "lrtStops", lrtLines |-> "lrtLines", parks |-> "parks",
   trafficIncidents |-> "trafficIncidents", trafficSignals |-> "trafficSignals",
   floodRisk |-> "floodZones", majorRoads |-> "majorRoads"]

\* The statistics cache with every source loaded.
FullCache == [k \in KeySet |-> Obj(k, 1)]

\* No load of the source has ever succeeded, and one has failed.
LoadFailed(key) == key \in failed /\ built[key] = 0

\* C14: when the load of a candidate source fails, the calls still return
\* their records: every counter of a source whose load failed is 0 / false,
\* and every counter of a source of which no load failed has the value it has
\* when nothing fails (for a search: the value over the whole collection; for
\* a full aggregation: the value over the collection when it was in the cache
\* as the call started, else 0).
C14_FailedLoadZeroesOnlyItsMetrics ==
  \A c \in DOMAIN calls :
    /\ SearchDone(c) =>
         \A k \in 1..Len(calls[c].result) : \A name \in CountersOf(calls[c].layer) :
           LET comm == world["communities"][calls[c].tasks[k].comm]
               value == calls[c].result[k][name]
           IN /\ LoadFailed(CounterSource[name]) => value = ZeroStats[name]
              /\ CounterSource[name] \notin failed =>
                   value = LayerStats(comm, calls[c].layer, FullCache)[name]
    /\ CalcDone(c) =>
         \A k \in 1..Len(calls[c].result) : \A s \in 1..Len(StageKeys) :
           LET key == StageKeys[s]
               value == calls[c].result[k][key]
           IN /\ LoadFailed(key) => value = 0
              /\ key \notin failed =>
                   value = IF key \in calls[c].snap THEN SingleChunk(key)[k][key] ELSE 0

\* A traffic search in which the load of the signals failed: a record counts
\* incidents and no signal.
C14_Witness ==
  \E c \in DOMAIN calls :
    /\ SearchDone(c)
    /\ calls[c].layer = "traffic"
    /\ failed = {"trafficSignals"}
    /\ built["trafficSignals"] = 0
    /\ \E k \in 1..Len(calls[c].result) :
         /\ calls[c].result[k].trafficIncidents > 0
         /\ calls[c].result[k].trafficSignals = 0
         /\ LayerStats(world["communities"][calls[c].tasks[k].comm], "traffic",
                       FullCache).trafficSignals > 0

(***************************************************************************)
(* Malformed features.                                                     *)
(***************************************************************************)
\* The features of a collection that are well formed.
WellFormed(f) == f # Null /\ HasField(f.geometry, "coordinates")

\* The points of the collection inside the boundary, the malformed features
\* left out.
PointsInside(key, g) ==
  Cardinality({i \in 1..Len(world[key]) :
                 /\ WellFormed(world[key][i])
                 /\ world[key][i].geometry.type = "Point"
                 /\ InsideBoundary(world[key][i].geometry.coordinates, g)})

\* C15: a malformed candidate feature never aborts a join: with every load
\* successful, a traffic search and a full aggregation over the loaded
\* traffic collections return a record per boundary whose counts are those of
\* the collections without the malformed feature.
C15_MalformedFeatureIsSkipped ==
  \A c \in DOMAIN calls :
    failures = 0 =>
      /\ (SearchDone(c) /\ calls[c].layer = "traffic") =>
           \A k \in 1..Len(calls[c].result) :
             /\ calls[c].result[k].trafficIncidents =
                  PointsInside("trafficIncidents", calls[c].result[k].geometry)
             /\ calls[c].result[k].trafficSignals =
                  PointsInside("trafficSignals", calls[c].result[k].geometry)
      /\ (CalcDone(c) /\ "trafficIncidents" \in calls[c].snap) =>
           /\ Len(calls[c].result) = Len(world["communities"])
           /\ \A k \in 1..Len(calls[c].result) :
                calls[c].result[k].trafficIncidents =
                  PointsInside("trafficIncidents", calls[c].result[k].geometry)

(***************************************************************************)
(* Boundaries without geometry.                                            *)
(***************************************************************************)
\* The geometry is missing, or neither the library nor the fallback reads a
\* region from it.
Unreadable(g) ==
  \/ g = NullGeom
  \/ ~HasField(g, "coordinates")
  \/ g.type \notin {"Polygon", "MultiPolygon"}

\* The record carries the attributes of the boundary.
CarriesAttributes(r, c) ==
  /\ r.id = c.properties.id
  /\ r.name = c.properties.name
  /\ r.code = c.properties.comm_code
  /\ r.sector = c.properties.sector
  /\ r.crime = c.properties.crime_by_community_total_crime

\* Every spatial metric of the full aggregation is 0 / false.
CalcMetricsZero(r) ==
  /\ r.trafficIncidents = 0 /\ r.parks = 0 /\ r.trafficSignals = 0 /\ r.lrtStops = 0
  /\ ~r.floodRisk

\* C16: when the loads succeed, a boundary whose geometry is missing or
\* cannot be read has its record in the result of the full aggregation and,
\* when it matches, of the search, with every spatial metric 0 / false and
\* the attributes of the boundary.
C16_BoundaryWithoutGeometry ==
  \A c \in DOMAIN calls :
    failures = 0 =>
      /\ CalcDone(c) =>
           /\ Len(calls[c].result) = Len(world["communities"])
           /\ \A k \in 1..Len(calls[c].result) :
                Unreadable(world["communities"][k].geometry) =>
                  /\ CarriesAttributes(calls[c].result[k], world["communities"][k])
                  /\ CalcMetricsZero(calls[c].result[k])
      /\ SearchDone(c) =>
           /\ Len(calls[c].result) = Len(Filtered(world["communities"], calls[c].term))
           /\ \A k \in 1..Len(calls[c].result) :
                LET comm == world["communities"][calls[c].tasks[k].comm]
                IN Unreadable(comm.geometry) =>
                     /\ CarriesAttributes(calls[c].result[k], comm)
                     /\ \A name \in CounterNames : calls[c].result[k][name] = ZeroStats[name]

(***************************************************************************)
(* Full aggregations in flight together.                                   *)
(***************************************************************************)
\* The counters of the loops from loop s on, each over its whole collection,
\* for the collections in `loaded`.
RECURSIVE LoopsFrom(_, _, _)
LoopsFrom(stats, loaded, s) ==
  IF s > Len(StageKeys) THEN stats
  ELSE LoopsFrom(IF StageKeys[s] \in loaded
                   THEN ProcessChunk(stats, StageKeys[s], world[StageKeys[s]], 0,
                                     Len(world[StageKeys[s]]), world["communities"])
                   ELSE stats,
                 loaded, s + 1)

\* What a full aggregation returns when it runs alone over the collections
\* in `loaded`.
AloneResult(loaded) ==
  LET stats == LoopsFrom(InitStats(world["communities"]), loaded, 1)
  IN IF "floodZones" \in loaded THEN FloodPass(stats, world["floodZones"]) ELSE stats

\* C17: full aggregations in flight at the same time, interleaved at their
\* yields, each return what a run alone returns over the cache contents they
\* started on ([] when the load of the boundaries failed).
C17_ConcurrentRunsIndependent ==
  \A c \in DOMAIN calls :
    CalcDone(c) =>
      IF calls[c].result = <<>> THEN "communities" \in failed
      ELSE calls[c].result = AloneResult(calls[c].snap)

\* A run has returned counts while the other run is between two chunks of
\* its first loop, with counts of its own.
C17_Witness ==
  /\ CalcDone(2)
  /\ \E k \in 1..Len(calls[2].result) : calls[2].result[k].trafficIncidents > 0
  /\ calls[3].pc = "yield" /\ calls[3].idx > 0
  /\ \E k \in 1..Len(calls[3].stats) : calls[3].stats[k].trafficIncidents > 0

(***************************************************************************)
(* Rankings.                                                               *)
(***************************************************************************)
\* The 1-based position of record i in the stable descending sort by m: after
\* the records with a larger value and the earlier records with the same.
StablePosition(stats, i, m) ==
  1 + Cardinality({j \in 1..Len(stats) : stats[j][m] > stats[i][m]})
    + Cardinality({j \in 1..(i - 1) : stats[j][m] = stats[i][m]})

\* The rank calculateRankings has given to record i for m.
RankGiven(i, m) == ranking.rankings[ranking.stats[i].name][m]

\* C18: for every list of records and every ranked metric, the rank of each
\* boundary is its 1-based position in the stable descending sort of the list
\* by the metric; the ranks of a metric are pairwise distinct and cover 1..n.
C18_RankIsStablePosition ==
  ranking.pc = "returned" =>
    \A m \in RankedMetrics :
      /\ \A i \in 1..Len(ranking.stats) : RankGiven(i, m) = StablePosition(ranking.stats, i, m)
      /\ {RankGiven(i, m) : i \in 1..Len(ranking.stats)} = 1..Len(ranking.stats)

(***************************************************************************)
(* The point test on a MultiPolygon.                                       *)
(***************************************************************************)
\* C20: for a MultiPolygon boundary the point test, through the library or
\* through the ray-casting fallback, is true exactly when the point is inside
\* at least one constituent polygon, two polygons that both contain the point
\* included.
C20_MultiPolygonAnyPolygon ==
  pointTest.pc = "returned" =>
    pointTest.result =
      (\E k \in 1..Len(pointTest.geometry.coordinates) :
         InsidePolygon(pointTest.point, pointTest.geometry.coordinates[k]))

(***************************************************************************)
(* Ray casting.                                                            *)
(***************************************************************************)
\* The closed ring traversed from its k-th vertex on.
Retraversed(ring, k) ==
  LET n == Len(ring) - 1
  IN [i \in 1..(n + 1) |-> ring[((k - 1 + i - 1) % n) + 1]]

\* C21: the result of the ray-casting fallback for a point and a closed ring
\* is the result for the same ring traversed from any other of its vertices.
C21_RetraversalInvariant ==
  (pointTest.pc = "returned" /\ HasField(pointTest.geometry, "broken")) =>
    \A k \in 1..(Len(pointTest.geometry.coordinates[1]) - 1) :
      pointTest.result =
        IsPointInCommunity(pointTest.point,
                           Broken(PolygonGeom(<<Retraversed(pointTest.geometry.coordinates[1], k)>>)))

\* The fallback has found (1, 1) inside a ring of four vertices that starts
\* at (2, 2).
C21_Witness ==
  /\ pointTest.pc = "returned"
  /\ pointTest.result
  /\ pointTest.point = <<1, 1>>
  /\ pointTest.geometry = Broken(PolygonGeom(<<Retraversed(Square(0, 0, 2, 2), 3)>>))

\* The point lies on the segment from a to b.
OnSegment(p, a, b) ==
  /\ (b[1] - a[1]) * (p[2] - a[2]) = (b[2] - a[2]) * (p[1] - a[1])
  /\ Min(a[1], b[1]) <= p[1] /\ p[1] <= Max(a[1], b[1])
  /\ Min(a[2], b[2]) <= p[2] /\ p[2] <= Max(a[2], b[2])

OnRing(p, ring) == \E i \in 1..(Len(ring) - 1) : OnSegment(p, ring[i], ring[i + 1])

\* The horizontal ray from p towards larger x meets the segment from a to b
\* (its lower end counted, its upper end not): p is at the height of the
\* segment and strictly to the left of it.
RayMeetsSegment(p, a, b) ==
  LET lo == IF a[2] <= b[2] THEN a ELSE b
      hi == IF a[2] <= b[2] THEN b ELSE a
  IN /\ lo[2] <= p[2] /\ p[2] < hi[2]
     /\ (hi[1] - lo[1]) * (p[2] - lo[2]) - (hi[2] - lo[2]) * (p[1] - lo[1]) > 0

RayCrossings(p, ring) ==
  Cardinality({i \in 1..(Len(ring) - 1) : RayMeetsSegment(p, ring[i], ring[i + 1])})

\* C22: for a point not on the ring the point test of a Polygon boundary is
\* true exactly when the horizontal ray from the point crosses the outer ring
\* an odd number of times; for the ring (0,0) (0,2) (2,2) (2,0) (0,0) it is
\* true for (1, 1) and false for (3, 3).
C22_EvenOddRule ==
  pointTest.pc = "returned" =>
    LET ring == pointTest.geometry.coordinates[1]
    IN /\ ~OnRing(pointTest.point, ring) =>
            pointTest.result = (RayCrossings(pointTest.point, ring) % 2 = 1)
       /\ (ring = Square(0, 0, 2, 2) /\ pointTest.point = <<1, 1>>) => pointTest.result
       /\ (ring = Square(0, 0, 2, 2) /\ pointTest.point = <<3, 3>>) => ~pointTest.result

\* The fallback has found (3, 3) outside the ring (0,0) (0,2) (2,2) (2,0) (0,0).
C22_Witness ==
  /\ pointTest.pc = "returned"
  /\ ~pointTest.result
  /\ pointTest.point = <<3, 3>>
  /\ pointTest.geometry = Broken(PolygonGeom(<<Square(0, 0, 2, 2)>>))

(***************************************************************************)
(* Line candidates.                                                        *)
(***************************************************************************)
\* The lines of a collection with a sampled vertex inside the boundary.
SampledLinesThrough(key, g) ==
  Cardinality({i \in 1..Len(world[key]) :
                 \E q \in SampledVertices(world[key][i]) : InsideBoundary(q, g)})

\* C23: with every load successful, a search counts a line candidate (an LRT
\* line, a major road; LineString or MultiLineString) for a boundary exactly
\* when the first, middle or last vertex of the line, of any constituent line
\* for a MultiLineString, is inside the boundary.
C23_LinesCountedBySampling ==
  \A c \in DOMAIN calls :
    (SearchDone(c) /\ failures = 0) =>
      \A k \in 1..Len(calls[c].result) :
        /\ calls[c].layer \in LrtLayers =>
             calls[c].result[k].lrtLines = SampledLinesThrough("lrtLines", calls[c].result[k].geometry)
        /\ calls[c].layer = "major_roads" =>
             calls[c].result[k].majorRoads =
               SampledLinesThrough("majorRoads", calls[c].result[k].geometry)

(***************************************************************************)
(* Polygon candidates.                                                     *)
(***************************************************************************)
\* The candidate polygon matches the boundary by sampling: their extents
\* overlap, and the first, middle or last vertex of its outer ring or the
\* centre of its extent is inside the boundary.
PolygonSampledOverlaps(pg, g) ==
  /\ ExtentsOverlap(Extent(pg), Extent(g))
  /\ \/ \E q \in SampledOfLine(pg.coordinates[1]) : InsideBoundary(q, g)
     \/ InsideBoundary(ExtentCentreTimes2(pg), ScaleGeom(g, 2))

\* The parks that match the boundary: a Point inside it, a Polygon by
\* sampling.
ParksMatching(g) ==
  Cardinality({i \in 1..Len(world["parks"]) :
                 LET pg == world["parks"][i].geometry
                 IN /\ HasField(pg, "coordinates")
                    /\ IF pg.type = "Point" THEN InsideBoundary(pg.coordinates, g)
                       ELSE pg.type = "Polygon" /\ PolygonSampledOverlaps(pg, g)})

\* C24: with every load successful, the full aggregation over the loaded
\* parks and the search for the layer 'parks' count a Polygon park for a
\* boundary exactly when it matches by extent and sampling (outer-ring
\* vertices and centre).
C24_PolygonParksBySampling ==
  \A c \in DOMAIN calls :
    failures = 0 =>
      /\ (SearchDone(c) /\ calls[c].layer = "parks") =>
           \A k \in 1..Len(calls[c].result) :
             calls[c].result[k].parks = ParksMatching(calls[c].result[k].geometry)
      /\ (CalcDone(c) /\ "parks" \in calls[c].snap) =>
           \A k \in 1..Len(calls[c].result) :
             calls[c].result[k].parks = ParksMatching(calls[c].result[k].geometry)

(***************************************************************************)
(* C25: after any sequence of changes of the active layer and of layer     *)
(* loads that settle, at most one vector layer is attached to the map, and *)
(* it shows the active layer.                                              *)
(***************************************************************************)
C25_OneLayerOfActive ==
  /\ Len(olMap.layers) <= 1
  /\ \A i \in 1..Len(olMap.layers) : olMap.layers[i].layer = olMap.activeLayer

(***************************************************************************)
(* C26: under fairness of the deferred callbacks every call of             *)
(* calculateCommunityStats resolves, and only after every chunk of every   *)
(* cached candidate collection has been processed: no operation of the     *)
(* facade stops or shortens a run that has started.                        *)
(***************************************************************************)
FloodStage == NStages + 1

\* The starts of the chunks of n features from index i on.
ChunkStarts(i, n, size) == {j \in i..(n - 1) : (j - i) % size = 0}

\* The work a run at a yield has left: the chunks of its loop from idx on,
\* the chunks of every later loop whose collection is cached, and the flood
\* check when the flood zones are cached.  Only the collections that were
\* cached when the call was made are counted.
Remaining(call, dc) ==
  {<<call.stage, j>> : j \in ChunkStarts(call.idx, Len(WorldData(StageKeys[call.stage])),
                                         StageChunk[call.stage])}
  \cup UNION {{<<s, j>> : j \in ChunkStarts(0, Len(Features(dc[StageKeys[s]])), StageChunk[s])} :
               s \in {t \in (call.stage + 1)..NStages :
                        StageKeys[t] \in call.snap /\ Loaded(dc, StageKeys[t])}}
  \cup (IF "floodZones" \in call.snap /\ Loaded(dc, "floodZones") THEN {<<FloodStage, 0>>} ELSE {})

CalcAtYield(c) == calls[c].kind = "calc" /\ calls[c].pc = "yield"

\* C26: no step of another operation takes work off a suspended run of
\* calculateCommunityStats, and a step of the run takes its next chunk off
\* it; the run returns when only the flood check, which runs in the task of
\* the last chunk, is left.
C26_RunNeverShortened ==
  [][\A c \in 1..NSlots :
       CalcAtYield(c) =>
         IF calls'[c] = calls[c]
           THEN Remaining(calls[c], dataCache) \subseteq Remaining(calls'[c], dataCache')
         ELSE LET rest == Remaining(calls[c], dataCache) \ {<<calls[c].stage, calls[c].idx>>}
              IN  IF calls'[c].pc = "yield"
                    THEN rest \subseteq Remaining(calls'[c], dataCache')
                  ELSE rest \subseteq {<<FloodStage, 0>>}]_vars

\* A deferred callback is due: a timer is set or a fetch is in flight (a
\* search at "tasks" has a callback that waits for a fetch).
ProgressDue == \E c \in 1..NSlots : calls[c].pc \in {"yield", "fetchComm", "tasks"}

\* The deferred callbacks of the host are run: a timer that is due fires
\* and a fetch in flight settles.  This is WF_vars(Progress) with
\* ENABLED <<Progress>>_vars written out as ProgressDue.
SpecFair == Init /\ [][Next]_vars /\ ([]<>(~ProgressDue) \/ []<><<Progress>>_vars)

\* The liveness part of C26: every call of calculateCommunityStats resolves.
CalcPending(c) == calls[c].kind = "calc" /\ calls[c].pc # "done"
C26_CalcResolves == \A c \in 1..NSlots : CalcPending(c) ~> CalcDone(c)

(***************************************************************************)
(* C27: in calculateCommunityStats the counters of every record are those  *)
(* of the geometry of the boundary the record was created from, also when  *)
(* two boundaries have equal or missing ids.                               *)
(***************************************************************************)
\* How often a candidate counts for a boundary of geometry g.
OwnHits(metric, f, g) ==
  IF metric = "parks"
    THEN Cardinality({i \in 1..Len(ParkPoints(f)) : IsPointInCommunity(ParkPoints(f)[i], g)})
  ELSE IF Len(CoordsOf(f)) >= 2 /\ IsNumberPair(f) /\ IsPointInCommunity(CoordsOf(f), g)
    THEN 1
  ELSE 0

RECURSIVE OwnCount(_, _, _, _)
OwnCount(metric, feats, g, i) ==
  IF i > Len(feats) THEN 0
  ELSE OwnHits(metric, feats[i], g) + OwnCount(metric, feats, g, i + 1)

\* C27: every counter a full aggregation returns for a record is the count
\* of the candidates against the geometry of the boundary at the record's
\* position.
C27_CountersOfOwnGeometry ==
  \A c \in DOMAIN calls :
    CalcDone(c) =>
      \A s \in 1..NStages, k \in 1..Len(calls[c].result) :
        Loaded(dataCache, StageKeys[s]) =>
          calls[c].result[k][StageKeys[s]]
            = OwnCount(StageKeys[s], world[StageKeys[s]], world["communities"][k].geometry, 1)

(***************************************************************************)
(* C28: what a run of calculateCommunityStats returns is determined by the *)
(* cache contents at the moment the run starts: a search that loads a      *)
(* further source, or whose failing load changes a cache entry, while the  *)
(* run is suspended does not change the metrics it computes.  The runs     *)
(* taken are those called with the boundaries cached, which start at once. *)
(***************************************************************************)
C28_ResultOfCacheAtStart ==
  \A c \in DOMAIN calls :
    (CalcDone(c) /\ "communities" \in calls[c].snap) =>
      calls[c].result = AloneResult(calls[c].snap)

(***************************************************************************)
(* C29: in every reachable state, when the statistics cache and the URL    *)
(* cache both hold a collection for a source, they hold the same object,   *)
(* also when the map component and the statistics module load the source   *)
(* at the same time.                                                       *)
(***************************************************************************)
C29_CachesCoherent ==
  \A key \in KeySet :
    (Loaded(dataCache, key) /\ GeoJsonCacheHas(geoJsonCache, key)) =>
      dataCache[key] = geoJsonCache[key]

(***************************************************************************)
(* C30: the SearchBar issues a search only after 200 ms without a change   *)
(* of term or layer, and the results on display belong to the most recent  *)
(* search: the response of an earlier search that arrives after a later    *)
(* search was issued, or after the term was cut below 2 characters, never  *)
(* replaces them.                                                          *)
(***************************************************************************)
C30_ResultsOfLatestSearch ==
  [][searchBar'.results # searchBar.results => searchBar'.results = searchBar'.latest]_vars

====
